---- MODULE Spec2Model ----
(***************************************************************************)
(* Model of snapback: the tiered snapshot store (hour/day/week/month       *)
(* rings under one base directory), its rotations, the hourly backup, the  *)
(* tag and delete operations, and the path-safety functions that gate the  *)
(* destructive steps.                                                      *)
(***************************************************************************)
EXTENDS Integers, Sequences, FiniteSets, TLC

VARIABLES
    store,      \* base directory: entry name -> directory entry
    root,       \* workspace root (local mode) or NoRoot (global mode)
    pre,        \* the store as it was before the last operation
    last,       \* the last operation: name, dry_run, error, filesystem ops
    nops,       \* operations performed so far
    regime,     \* what has run since the store was initialised
    run,        \* number of operations of the current regime
    hrot,       \* non-dry-run rotate_hourly executions so far
    pin,        \* input of a function called on its own
    pout,       \* result of that call
    config,     \* retention counts read from the configuration file
    procs       \* the concurrent rotation invocations and their positions

vars ==
    <<store, root, pre, last, nops, regime, run, hrot, pin, pout, config,
      procs>>

-----------------------------------------------------------------------------
(* Bounds *)

MaxOps == 2
MaxRun == 26
MaxRotOps == 2
MaxDepth == 2
MaxHops == 8
MaxList == 3

\* Interruptions of one concurrent rotation by the other.
MaxPreempt == 1

\* Calls of one handler in a row beyond the top index of its tier.
MaxExtra == 2

(* Program constants: the slot ranges are literals of the code. *)
HourTop == 23
DayTop == 7
WeekTop == 4
MonthTop == 12

-----------------------------------------------------------------------------
(* Names of base-directory entries.  "hour-5" is N("hour", 5, ""),         *)
(* "hour-old" is N("hour", -1, "old"), "hour-5-old" is                     *)
(* N("hour", 5, "-old"), "before-upgrade" is N("", -1, "before-upgrade"):  *)
(* the prefix before the first "-", the decimal digits that follow it (-1  *)
(* when there are none), and what is left after those.                     *)

N(p, i, t) == [pre |-> p, num |-> i, txt |-> t]

Comp(s) == N("", -1, s)

DotDot == Comp("..")

Tiers == {"hour", "day", "week", "month"}

Top(t) ==
    CASE t = "hour" -> HourTop
      [] t = "day" -> DayTop
      [] t = "week" -> WeekTop
      [] t = "month" -> MonthTop

Slot(t, i) == N(t, i, "")

Slots == UNION {{Slot(t, i) : i \in 0..Top(t)} : t \in Tiers}

TagNames == {Comp("before-upgrade"), N("hour", -1, "old")}

Names == Slots \cup TagNames

-----------------------------------------------------------------------------
(* Directory entries.  A snapshot directory holds one subdirectory per     *)
(* configured source (by basename) and possibly a marker file at its top.  *)
(* A subdirectory is identified by the generation of the sync that wrote   *)
(* it and the files it still holds.                                        *)

Dirs == <<"proj", "docs">>

Basenames == {Dirs[k] : k \in 1..Len(Dirs)}

Files == {"f1", "f2"}

NoSub == [gen |-> -1, files |-> {}]

EmptySub == [gen |-> 0, files |-> {}]

NoSubs == [b \in Basenames |-> NoSub]

Absent == [kind |-> "absent", mark |-> 0, sub |-> NoSubs]

EmptyDir == [kind |-> "dir", mark |-> 0, sub |-> NoSubs]

Marked(m) == [kind |-> "dir", mark |-> m, sub |-> NoSubs]

\* Path.exists(): follows symlinks; a symlinked entry points at an existing
\* directory outside the workspace.
exists(e) == e.kind # "absent"

IsEmptyEntry(e) == e.mark = 0 /\ e.sub = NoSubs

-----------------------------------------------------------------------------
(* Paths: an absolute flag and the sequence of components, as pathlib's    *)
(* parts.                                                                  *)

Abs(parts) == [abs |-> TRUE, parts |-> parts]

Rel(parts) == [abs |-> FALSE, parts |-> parts]

WS == Abs(<<Comp("ws")>>)

NoRoot == Abs(<<Comp("<none>")>>)

Base == Abs(<<Comp("ws"), Comp(".snapshots")>>)

OutDir == <<Comp("out")>>

Locked == <<Comp("ws"), Comp("locked")>>

get_snapshot_path(n) == Abs(Append(Base.parts, n))

\* The symbolic links of the world: fixed ones inside the workspace (to
\* the outside directory, to nothing, to itself, to /etc), /bin (to
\* /usr/bin), and one per symlinked entry of the base directory.
StaticLinks ==
    {<<Comp("ws"), Comp("link")>>, <<Comp("ws"), Comp("broken")>>,
     <<Comp("ws"), Comp("loop")>>, <<Comp("ws"), Comp("etclink")>>,
     <<Comp("bin")>>}

IsEntryPath(p) == Len(p) = Len(Base.parts) + 1
                  /\ SubSeq(p, 1, Len(Base.parts)) = Base.parts
                  /\ p[Len(p)] \in Names

IsLinkAt(fs, p) ==
    \/ p \in StaticLinks
    \/ IsEntryPath(p) /\ fs[p[Len(p)]].kind = "link"

readlink(p) ==
    CASE p = <<Comp("ws"), Comp("link")>> -> OutDir
      [] p = <<Comp("ws"), Comp("broken")>> -> <<Comp("ws"), Comp("missing")>>
      [] p = <<Comp("ws"), Comp("loop")>> -> <<Comp("ws"), Comp("loop")>>
      [] p = <<Comp("ws"), Comp("etclink")>> -> <<Comp("etc")>>
      [] p = <<Comp("bin")>> -> <<Comp("usr"), Comp("bin")>>
      [] OTHER -> Append(OutDir, p[Len(p)])

-----------------------------------------------------------------------------
(* posixpath.normpath / abspath: lexical normalisation.                    *)

RECURSIVE normpath(_, _)
normpath(stack, rest) ==
    IF rest = <<>> THEN stack
    ELSE IF Head(rest) = DotDot
         THEN normpath(IF stack = <<>> THEN <<>>
                       ELSE SubSeq(stack, 1, Len(stack) - 1), Tail(rest))
         ELSE normpath(Append(stack, Head(rest)), Tail(rest))

abspath(p, cwd) ==
    IF p.abs THEN normpath(<<>>, p.parts) ELSE normpath(<<>>, cwd \o p.parts)

\* posixpath._joinrealpath, the ".." step.
ParentOf(p) ==
    IF p.parts = <<>> THEN (IF p.abs THEN p ELSE Rel(<<DotDot>>))
    ELSE IF p.parts[Len(p.parts)] = DotDot
         THEN [p EXCEPT !.parts = Append(@, DotDot)]
         ELSE [p EXCEPT !.parts = SubSeq(@, 1, Len(@) - 1)]

\* One component of posixpath._joinrealpath: the path so far after it, and
\* what is left to walk (ok), or the unresolved result (not ok).
RECURSIVE joinrealpath(_, _, _, _, _)
link_result(r, more) ==
    [path |-> IF r.ok THEN r.path ELSE [r.path EXCEPT !.parts = @ \o more],
     ok |-> r.ok, go |-> more]

link_target(fs, key, newpath, more, seen, cwd) ==
    IF key \in seen
    THEN [path |-> [newpath EXCEPT !.parts = @ \o more], ok |-> FALSE,
          go |-> <<>>]
    ELSE link_result(joinrealpath(fs, Abs(<<>>), readlink(key),
                                  seen \cup {key}, cwd), more)

entered(fs, key, newpath, more, seen, cwd) ==
    IF IsLinkAt(fs, key) THEN link_target(fs, key, newpath, more, seen, cwd)
    ELSE [path |-> newpath, ok |-> TRUE, go |-> more]

joinrealpath_step(fs, path, name, more, seen, cwd) ==
    IF name = DotDot THEN [path |-> ParentOf(path), ok |-> TRUE, go |-> more]
    ELSE entered(fs, abspath([path EXCEPT !.parts = Append(@, name)], cwd),
                 [path EXCEPT !.parts = Append(@, name)], more, seen, cwd)

joinrealpath_rest(fs, step, seen, cwd) ==
    IF step.ok THEN joinrealpath(fs, step.path, step.go, seen, cwd) ELSE step

\* posixpath._joinrealpath with strict=False: lstat errors are swallowed
\* (the component is then taken as a plain name), symlinks are followed,
\* a symlink met again while it is being resolved ends the resolution with
\* the rest of the path appended unchanged.
joinrealpath(fs, path, rest, seen, cwd) ==
    IF rest = <<>> THEN [path |-> path, ok |-> TRUE, go |-> <<>>]
    ELSE joinrealpath_rest(fs, joinrealpath_step(fs, path, Head(rest),
                                                 Tail(rest), seen, cwd),
                           seen, cwd)

realpath(fs, p, cwd) ==
    abspath(joinrealpath(fs, IF p.abs THEN Abs(<<>>) ELSE Rel(<<>>),
                         p.parts, {}, cwd).path, cwd)

\* The kernel's walk of a normalised absolute path, as Path.stat() performs
\* it: ELOOP after too many symbolic links.
RECURSIVE stat(_, _, _, _)
stat(fs, cur, rest, hops) ==
    IF rest = <<>> THEN "ok"
    ELSE LET np == Append(cur, Head(rest))
         IN  IF IsLinkAt(fs, np)
             THEN IF hops >= MaxHops THEN "ELOOP"
                  ELSE stat(fs, <<>>, readlink(np) \o Tail(rest), hops + 1)
             ELSE stat(fs, np, Tail(rest), hops)

\* Path.resolve(): realpath, then a stat() whose only purpose is to raise
\* RuntimeError on a symlink loop.  Runtimes from 3.13 on no longer raise
\* there; eloop says which runtime behaviour applies.
check_eloop(fs, s, eloop) ==
    IF eloop /\ stat(fs, <<>>, s, 0) = "ELOOP"
    THEN [raised |-> "RuntimeError", parts |-> <<>>]
    ELSE [raised |-> "none", parts |-> s]

resolve(fs, p, cwd, eloop) == check_eloop(fs, realpath(fs, p, cwd), eloop)

\* PurePath.relative_to succeeds iff the other path is a lexical prefix.
IsPrefix(a, b) == Len(a) <= Len(b) /\ SubSeq(b, 1, Len(a)) = a

\* resolved_path.relative_to(resolved_workspace) inside the try block: any
\* exception of the two resolutions or of relative_to gives False.
relative_to(resolved_path, resolved_workspace) ==
    IF resolved_path.raised # "none" \/ resolved_workspace.raised # "none"
    THEN FALSE
    ELSE IsPrefix(resolved_workspace.parts, resolved_path.parts)

is_safe_workspace_path(fs, path, workspace_root, cwd, eloop) ==
    relative_to(resolve(fs, path, cwd, eloop),
                resolve(fs, workspace_root, cwd, eloop))

\* The validation without its traversal check.
validate_boundary_only(fs, path, workspace_root, cwd, eloop) ==
    IF ~is_safe_workspace_path(fs, path, workspace_root, cwd, eloop)
    THEN "ValueError:outside_workspace"
    ELSE "none"

\* validate_workspace_path: the traversal error raised inside the try block
\* is caught by its own except clause and re-raised as "Invalid path".
validate_workspace_path(fs, path, workspace_root, cwd, eloop) ==
    LET inner == IF \E k \in 1..Len(path.parts) : path.parts[k] = DotDot
                 THEN "ValueError:traversal" ELSE "none"
    IN  IF inner # "none" THEN "ValueError:invalid_path"
        ELSE IF ~is_safe_workspace_path(fs, path, workspace_root, cwd, eloop)
        THEN "ValueError:outside_workspace"
        ELSE "none"

\* What each error message of validate_workspace_path names: the f-strings
\* interpolate the operation and the path, and the two inner messages also
\* the workspace root. The traversal message never leaves the function.
ErrorMessage(err) ==
    CASE err = "ValueError:traversal" ->
            {"operation", "path", "workspace_root"}
      [] err = "ValueError:invalid_path" -> {"operation", "path"}
      [] err = "ValueError:outside_workspace" ->
            {"operation", "path", "workspace_root"}
      [] OTHER -> {}

-----------------------------------------------------------------------------
(* The working directory and runtime of the tool's own calls: its paths    *)
(* are absolute and meet no symlink loop, so neither changes a result.     *)

ToolCwd == WS.parts

\* SnapshotManager.workspace_root / BackupManager.workspace_root: the
\* resolved parent of the configuration file in local mode, else None.
workspace_root == root

-----------------------------------------------------------------------------
(* A handler's progress: the store so far, the exception raised (if any)   *)
(* and the filesystem operations performed, in order.                      *)

NoName == Comp("")

Start(st) == [st |-> st, err |-> "none", ops |-> <<>>]

Raise(R, e) == [R EXCEPT !.err = e]

FsOp(kind, a, b, out) == [op |-> kind, src |-> a, dst |-> b, outside |-> out]

\* Whether the path a filesystem call acts on lies outside the workspace.
\* A path of the store can leave the workspace only through a symlinked
\* entry that the call follows (followed).
Outside(followed, fs, path) ==
    followed /\ ~is_safe_workspace_path(fs, path, WS, ToolCwd, TRUE)

Followed(fs, n) == fs[n].kind = "link"

\* shutil.rmtree with the read-only handler: refuses a symbolic link
\* (OSError, re-raised by the handler), else removes the tree.
rmtree(R, n) ==
    IF R.st[n].kind = "link" THEN Raise(R, "OSError")
    ELSE [R EXCEPT !.st[n] = Absent,
                   !.ops = Append(@, FsOp("delete", n, NoName,
                              Outside(Followed(R.st, n), R.st,
                                      get_snapshot_path(n))))]

\* The removal without its workspace check.
safe_rmtree_ungated(R, n) ==
    IF R.err # "none" THEN R
    ELSE IF ~exists(R.st[n]) THEN Raise(R, "FileNotFoundError")
    ELSE rmtree(R, n)

safe_rmtree(R, n) ==
    IF R.err # "none" THEN R
    ELSE IF ~exists(R.st[n]) THEN Raise(R, "FileNotFoundError")
    ELSE IF workspace_root # NoRoot
            /\ ~is_safe_workspace_path(R.st, get_snapshot_path(n),
                                       workspace_root, ToolCwd, TRUE)
    THEN Raise(R, "ValueError")
    ELSE rmtree(R, n)

\* A rename that loses what it moves.
rename_lost(R, a, b) ==
    IF R.err # "none" THEN R
    ELSE [R EXCEPT !.st[b] = Absent, !.st[a] = Absent]

\* Path.rename -> rename(2): moves the entry itself (a symlink is followed
\* at neither end); an existing empty directory is replaced by a directory,
\* a non-empty one is ENOTEMPTY, directory onto symlink is ENOTDIR, symlink
\* onto directory is EISDIR.
rename(R, a, b) ==
    IF R.err # "none" THEN R
    ELSE IF \/ R.st[b].kind = "absent"
            \/ R.st[a].kind = "dir" /\ R.st[b].kind = "dir"
                                    /\ IsEmptyEntry(R.st[b])
            \/ R.st[a].kind = "link" /\ R.st[b].kind = "link"
    THEN [R EXCEPT !.st[b] = R.st[a], !.st[a] = Absent,
                   !.ops = Append(@, FsOp("rename", a, b,
                              Outside(FALSE, R.st, get_snapshot_path(b))))]
    ELSE Raise(R, "OSError")

\* A mkdir that replaces what it finds by an empty directory.
mkdir_fresh(R, n) ==
    IF R.err # "none" THEN R ELSE [R EXCEPT !.st[n] = EmptyDir]

\* Path.mkdir(exist_ok=True) on an entry of the base directory.
mkdir(R, n) ==
    IF R.err # "none" \/ exists(R.st[n]) THEN R
    ELSE [R EXCEPT !.st[n] = EmptyDir,
                   !.ops = Append(@, FsOp("create", NoName, n,
                              Outside(Followed(R.st, n), R.st,
                                      get_snapshot_path(n))))]

\* What a hard-link walk of src leaves in one subdirectory of dst: src's
\* files replace their namesakes, files only dst had stay.
MergeSub(s, d) ==
    IF s = NoSub THEN d
    ELSE IF d = NoSub THEN s
    ELSE [gen |-> s.gen, files |-> s.files \cup d.files]

create_hard_link_copy(R, src, dst) ==
    IF R.err # "none" THEN R
    ELSE IF ~exists(R.st[src]) THEN Raise(R, "FileNotFoundError")
    ELSE LET s == R.st[src]
             d == R.st[dst]
             made == IF exists(d) THEN d ELSE EmptyDir
             copy == [kind |-> made.kind,
                      mark |-> IF s.mark # 0 THEN s.mark ELSE made.mark,
                      sub |-> [b \in Basenames |->
                                  MergeSub(s.sub[b], made.sub[b])]]
         IN  [R EXCEPT !.st[dst] = copy,
                       !.ops = Append(@, FsOp("link_copy", src, dst,
                                  Outside(Followed(R.st, dst), R.st,
                                          get_snapshot_path(dst))))]

-----------------------------------------------------------------------------
(* SnapshotManager *)

\* init_snapshots: mkdir(exist_ok=True) for every slot of every tier.
RECURSIVE init_tier(_, _, _)
init_tier(R, t, i) ==
    IF i > Top(t) \/ R.err # "none" THEN R
    ELSE init_tier(mkdir(R, Slot(t, i)), t, i + 1)

init_snapshots(st) ==
    init_tier(init_tier(init_tier(init_tier(Start(st),
        "hour", 0), "day", 0), "week", 0), "month", 0)

\* for i in range(top - 1, -1, -1): if src.exists(): src.rename(dst)
\* A move that leaves its source behind.
move_keeps_src(R, src, dst) ==
    IF R.err = "none" /\ exists(R.st[src])
    THEN [R EXCEPT !.st[dst] = R.st[src]]
    ELSE R

\* A shift that deletes the slot it should move.
move_deletes(R, src, dst) ==
    IF R.err = "none" /\ exists(R.st[src]) THEN rmtree(R, src) ELSE R

\* A move that insists on its source: renaming an absent slot raises.
move_strict(R, src, dst) ==
    IF R.err # "none" THEN R
    ELSE IF ~exists(R.st[src]) THEN Raise(R, "FileNotFoundError")
    ELSE rename(R, src, dst)

\* if src.exists(): src.rename(dst)
move(R, src, dst) ==
    IF R.err = "none" /\ exists(R.st[src]) THEN rename(R, src, dst) ELSE R

\* An eviction that deletes nothing.
evict_nothing(R, top) == R

\* if top.exists(): safe_rmtree(top, self.workspace_root)
evict(R, top) ==
    IF R.err = "none" /\ exists(R.st[top]) THEN safe_rmtree(R, top) ELSE R

\* A promotion step that deletes the top slot whatever the next tier holds.
promote_never(R, top, next_0) == evict(R, top)

\* if top.exists() and not next_0.exists(): top.rename(next_0)
\* elif top.exists(): safe_rmtree(top, self.workspace_root)
promote_or_evict(R, top, next_0) ==
    IF exists(R.st[top]) /\ ~exists(R.st[next_0]) THEN rename(R, top, next_0)
    ELSE evict(R, top)

\* The loop stopping one short: slot 0 is never moved.
RECURSIVE shift_above_zero(_, _, _)
shift_above_zero(R, t, i) ==
    IF i < 1 \/ R.err # "none" THEN R
    ELSE shift_above_zero(move(R, Slot(t, i), Slot(t, i + 1)), t, i - 1)

RECURSIVE shift(_, _, _)
shift(R, t, i) ==
    IF i < 0 \/ R.err # "none" THEN R
    ELSE shift(move(R, Slot(t, i), Slot(t, i + 1)), t, i - 1)

\* A promotion that moves the source instead of copying it.
link_promote_moves(R, src, dst) ==
    IF R.err = "none" /\ exists(R.st[src]) THEN rename(R, src, dst) ELSE R

\* if day_7.exists(): (if week_0.exists(): safe_rmtree(week_0)), then
\* create_hard_link_copy(day_7, week_0)
link_promote(R, src, dst) ==
    IF R.err = "none" /\ exists(R.st[src])
    THEN create_hard_link_copy(evict(R, dst), src, dst)
    ELSE R

\* A line a dry run prints: "<src> -> <dst>", "<src> -> weekly rotation"
\* (kind "promote", no destination named) or "Deleting <src>".
Line(kind, a, b) == [op |-> kind, src |-> a, dst |-> b]

\* for i in range(top - 1, -1, -1): print(f"  {base}/t-{i} -> {base}/t-{i+1}")
RECURSIVE shift_lines(_, _)
shift_lines(t, i) ==
    IF i < 0 THEN <<>>
    ELSE <<Line("rename", Slot(t, i), Slot(t, i + 1))>> \o shift_lines(t, i - 1)

\* What the dry-run branch of a rotation prints, in order: it looks at no
\* slot, so the list is the same for every store.
dry_run_report(op) ==
    CASE op = "rotate_hourly" -> shift_lines("hour", HourTop - 1)
      [] op = "rotate_daily" ->
            <<Line("promote", Slot("day", DayTop), NoName)>>
            \o shift_lines("day", DayTop - 1)
            \o <<Line("rename", Slot("hour", HourTop), Slot("day", 0))>>
      [] op = "rotate_weekly" ->
            <<Line("promote", Slot("week", WeekTop), NoName)>>
            \o shift_lines("week", WeekTop - 1)
            \o <<Line("rename", Slot("day", DayTop), Slot("week", 0))>>
      [] OTHER ->
            <<Line("delete", Slot("month", MonthTop), NoName)>>
            \o shift_lines("month", MonthTop - 1)
            \o <<Line("rename", Slot("week", WeekTop), Slot("month", 0))>>

rotate_hourly(st, dry_run) ==
    IF dry_run THEN Start(st)
    ELSE shift(evict(Start(st), Slot("hour", HourTop)), "hour", HourTop - 1)

\* The daily rotation without the promotion of hour-23.
rotate_daily_unfed(st, dry_run) ==
    IF dry_run THEN Start(st)
    ELSE shift(promote_or_evict(Start(st), Slot("day", DayTop),
                                Slot("week", 0)),
               "day", DayTop - 1)

rotate_daily(st, dry_run) ==
    IF dry_run THEN Start(st)
    ELSE move(shift(promote_or_evict(Start(st), Slot("day", DayTop),
                                     Slot("week", 0)),
                    "day", DayTop - 1),
              Slot("hour", HourTop), Slot("day", 0))

rotate_weekly(st, dry_run) ==
    IF dry_run THEN Start(st)
    ELSE link_promote(shift(promote_or_evict(Start(st), Slot("week", WeekTop),
                                             Slot("month", 0)),
                            "week", WeekTop - 1),
                      Slot("day", DayTop), Slot("week", 0))

rotate_monthly(st, dry_run) ==
    IF dry_run THEN Start(st)
    ELSE move(shift(evict(Start(st), Slot("month", MonthTop)),
                    "month", MonthTop - 1),
              Slot("week", WeekTop), Slot("month", 0))

-----------------------------------------------------------------------------
(* BackupManager *)

Outcomes == {"ok", "fail", "missing", "escaped"}

\* A configured source directory: inside the workspace, or (escaped) reached
\* through the workspace's symlink to the outside directory.
SourcePath(b, o) ==
    IF o = "escaped" THEN Abs(<<Comp("ws"), Comp("link"), Comp(b)>>)
    ELSE Abs(<<Comp("ws"), Comp(b)>>)

TargetSubdir(b) == Abs(Base.parts \o <<Slot("hour", 0), Comp(b)>>)

\* A sync that rewrites files in place: every entry whose mirror of b is
\* hard-linked with hour-0's changes with it.
run_rsync_inplace(R, b, o, g) ==
    IF workspace_root # NoRoot
       /\ validate_workspace_path(R.st, SourcePath(b, o), workspace_root,
                                  ToolCwd, TRUE) # "none"
    THEN Raise(R, "ValueError")
    ELSE IF o = "fail" THEN Raise(R, "CalledProcessError")
    ELSE [R EXCEPT !.st = [n \in Names |->
                     IF \/ n = Slot("hour", 0)
                        \/ /\ R.st[n].sub[b] = R.st[Slot("hour", 0)].sub[b]
                           /\ R.st[n].sub[b].files # {}
                     THEN [R.st[n] EXCEPT
                              !.sub[b] = [gen |-> g, files |-> Files]]
                     ELSE R.st[n]],
                   !.ops = Append(@, FsOp("sync", NoName, Slot("hour", 0),
                                          FALSE))]

\* run_rsync: validates source and target in local mode (ValueError), then
\* runs the sync collaborator; a non-zero exit is CalledProcessError.
run_rsync(R, b, o, g) ==
    IF workspace_root # NoRoot
       /\ validate_workspace_path(R.st, SourcePath(b, o), workspace_root,
                                  ToolCwd, TRUE) # "none"
    THEN Raise(R, "ValueError")
    ELSE IF workspace_root # NoRoot
            /\ validate_workspace_path(R.st, TargetSubdir(b), workspace_root,
                                       ToolCwd, TRUE) # "none"
    THEN Raise(R, "ValueError")
    ELSE IF o = "fail" THEN Raise(R, "CalledProcessError")
    ELSE [R EXCEPT !.st[Slot("hour", 0)].sub[b] = [gen |-> g, files |-> Files],
                   !.ops = Append(@, FsOp("sync", NoName, Slot("hour", 0),
                              Outside(Followed(R.st, Slot("hour", 0)), R.st,
                                      TargetSubdir(b))))]

\* target_subdir.mkdir(parents=True, exist_ok=True)
mkdir_target(R, b) ==
    [R EXCEPT !.st[Slot("hour", 0)].sub[b] = IF @ = NoSub THEN EmptySub ELSE @]

\* A loop that catches nothing: the failure of one sync leaves
\* hourly_backup.
caught_nothing(r1, r2) == r2

\* except subprocess.CalledProcessError: the failure is printed and the loop
\* goes on; any other exception leaves hourly_backup.
caught(r1, r2) == IF r2.err = "CalledProcessError" THEN r1 ELSE r2

rsync_caught(r1, b, o, g) == caught(r1, run_rsync(r1, b, o, g))

\* One iteration of hourly_backup's loop over config.dirs.
sync_one(R, b, o, g) ==
    IF R.err # "none" \/ o = "missing" THEN R
    ELSE IF workspace_root # NoRoot
            /\ validate_workspace_path(R.st, SourcePath(b, o), workspace_root,
                                       ToolCwd, TRUE) # "none"
    THEN R
    ELSE rsync_caught(mkdir_target(R, b), b, o, g)

RECURSIVE sync_all(_, _, _, _)
sync_all(R, oc, g, k) ==
    IF k > Len(Dirs) THEN R
    ELSE sync_all(sync_one(R, Dirs[k], oc[Dirs[k]], g), oc, g, k + 1)

\* A backup that seeds hour-0 from the oldest hour slot.
new_hour_0_from_oldest(R) ==
    IF R.err # "none" THEN R
    ELSE IF exists(R.st[Slot("hour", HourTop)])
    THEN create_hard_link_copy(R, Slot("hour", HourTop), Slot("hour", 0))
    ELSE mkdir(R, Slot("hour", 0))

\* A backup that does not recreate hour-0 after its rotation.
new_hour_0_skipped(R) == R

\* hourly_backup: rotate, create hour-0 from hour-1 (or empty), sync each
\* source.  g identifies the content a successful sync writes.
new_hour_0(R) ==
    IF R.err # "none" THEN R
    ELSE IF exists(R.st[Slot("hour", 1)])
    THEN create_hard_link_copy(R, Slot("hour", 1), Slot("hour", 0))
    ELSE mkdir(R, Slot("hour", 0))

\* hourly_backup without its dry-run branch.
hourly_backup_wet(st, dry_run, oc, g) ==
    sync_all(new_hour_0(rotate_hourly(st, FALSE)), oc, g, 1)

hourly_backup(st, dry_run, oc, g) ==
    IF dry_run THEN Start(st)
    ELSE sync_all(new_hour_0(rotate_hourly(st, FALSE)), oc, g, 1)

-----------------------------------------------------------------------------
(* RecoveryManager *)

\* str.startswith("hour-") or "day-" or "week-" or "month-"
StartsWithTier(n) == n.pre \in Tiers

\* re.match(r"^(hour|day|week|month)-\d+$", name)
is_standard_snapshot(n) == n.pre \in Tiers /\ n.num >= 0 /\ n.txt = ""

\* Path.is_dir() of an entry of the base directory: follows a symlink.
is_dir(e) == e.kind \in {"dir", "link"}

\* SnapshotManager.list_snapshots: the entries that are directories and
\* whose name starts with a tier prefix.  sorted() only orders the
\* result, which is kept here as the set of its elements.
list_snapshots(st) ==
    {n \in Names : is_dir(st[n]) /\ StartsWithTier(n)}

\* RecoveryManager.list_tagged_snapshots: the directories whose name
\* starts with no tier prefix.
list_tagged_snapshots(st) ==
    {n \in Names : is_dir(st[n]) /\ ~StartsWithTier(n)}

\* The sync of one source that recover and undel start: mode is the flag
\* that tells them apart; the invocation is recorded whatever its outcome.
Restore(R, snapshot_name, b, mode) ==
    [R EXCEPT !.ops = Append(@, FsOp(mode, snapshot_name, Comp(b), FALSE))]

\* One iteration without its except clause: a failed sync leaves the call.
restore_one_fatal(R, snapshot_name, b, o, mode) ==
    IF R.err # "none" \/ R.st[snapshot_name].sub[b] = NoSub THEN R
    ELSE IF o = "fail"
    THEN Raise(Restore(R, snapshot_name, b, mode), "CalledProcessError")
    ELSE Restore(R, snapshot_name, b, mode)

\* One iteration of the loop over config.dirs: a source without
\* subdirectory in the snapshot is skipped, the sync is run, a non-zero
\* exit (CalledProcessError) is printed.
restore_one(R, snapshot_name, b, o, mode) ==
    IF R.err # "none" \/ R.st[snapshot_name].sub[b] = NoSub THEN R
    ELSE caught(Restore(R, snapshot_name, b, mode),
                IF o = "fail"
                THEN Raise(Restore(R, snapshot_name, b, mode),
                           "CalledProcessError")
                ELSE Restore(R, snapshot_name, b, mode))

RECURSIVE restore_all(_, _, _, _, _)
restore_all(R, snapshot_name, oc, mode, k) ==
    IF k > Len(Dirs) THEN R
    ELSE restore_all(restore_one(R, snapshot_name, Dirs[k], oc[Dirs[k]],
                                 mode),
                     snapshot_name, oc, mode, k + 1)

restore(st, snapshot_name, dry_run, oc, mode) ==
    IF ~exists(st[snapshot_name]) THEN Raise(Start(st), "FileNotFoundError")
    ELSE IF dry_run THEN Start(st)
    ELSE restore_all(Start(st), snapshot_name, oc, mode, 1)

\* recover: rsync -a -v --delete <snapshot>/<name>/ <source>
recover(st, snapshot_name, dry_run, oc) ==
    restore(st, snapshot_name, dry_run, oc, "rsync --delete")

\* undel: rsync -a -v --ignore-existing <snapshot>/<name>/ <source>
undel(st, snapshot_name, dry_run, oc) ==
    restore(st, snapshot_name, dry_run, oc, "rsync --ignore-existing")

\* A tag that does not look whether the tag name is taken.
tag_overwrites(st, snapshot_name, tag_name, dry_run) ==
    IF ~exists(st[snapshot_name]) THEN Raise(Start(st), "FileNotFoundError")
    ELSE IF dry_run THEN Start(st)
    ELSE create_hard_link_copy(Start(st), snapshot_name, tag_name)

tag(st, snapshot_name, tag_name, dry_run) ==
    IF ~exists(st[snapshot_name]) THEN Raise(Start(st), "FileNotFoundError")
    ELSE IF exists(st[tag_name]) THEN Raise(Start(st), "FileExistsError")
    ELSE IF dry_run THEN Start(st)
    ELSE create_hard_link_copy(Start(st), snapshot_name, tag_name)

delete_tag(st, tag_name, dry_run) ==
    IF ~exists(st[tag_name]) THEN Raise(Start(st), "FileNotFoundError")
    ELSE IF StartsWithTier(tag_name) THEN Raise(Start(st), "ValueError")
    ELSE IF dry_run THEN Start(st)
    ELSE rmtree(Start(st), tag_name)

\* A path given to delete_path: the configured source it lies under (by
\* basename, "" when under none) and the path below it: "" for the source
\* directory itself, a file, or "../.." followed by the name up, which
\* from the mirror of the source leads to an entry of the base directory.
NoPath == [b |-> "", rel |-> "", up |-> NoName]

UpNames == {Slot("hour", 5), Comp("before-upgrade")}

DeletePathInputs ==
    {[b |-> b, rel |-> r, up |-> NoName] :
        b \in Basenames, r \in Files \cup {""}}
        \cup {[b |-> b, rel |-> "../..", up |-> u] :
                  b \in Basenames, u \in UpNames}
        \cup {NoPath}

Hour0Path(p) ==
    Abs(Base.parts \o <<Slot("hour", 0), Comp(p.b)>> \o
        (IF p.rel = "" THEN <<>> ELSE <<Comp(p.rel)>>))

\* hour_0_path.exists(): the mirror, a file of it, or, for a path that
\* climbs out of a mirror that is there, the entry it names.
InHour0(st, p, b) ==
    IF p.up # NoName
    THEN /\ st[Slot("hour", 0)].kind = "dir"
         /\ st[Slot("hour", 0)].sub[b] # NoSub
         /\ exists(st[p.up])
    ELSE IF p.rel = "" THEN st[Slot("hour", 0)].sub[b] # NoSub
    ELSE p.rel \in st[Slot("hour", 0)].sub[b].files

\* shutil.rmtree(hour_0_path) or hour_0_path.unlink()
delete_found(R, p, b) ==
    IF p.up # NoName THEN rmtree(R, p.up)
    ELSE [R EXCEPT !.st[Slot("hour", 0)].sub[b] =
                      IF p.rel = "" THEN NoSub
                      ELSE [@ EXCEPT !.files = @ \ {p.rel}],
                   !.ops = Append(@, FsOp("delete", Slot("hour", 0), NoName,
                              Outside(Followed(R.st, Slot("hour", 0)),
                                      R.st, Hour0Path(p))))]

\* delete_path's loop over config.dirs: the first source the path lies
\* under (lexically: relative_to) whose counterpart exists in hour-0 is
\* deleted there, then break.
RECURSIVE delete_scan(_, _, _, _)
delete_scan(R, p, dry_run, k) ==
    IF k > Len(Dirs) THEN R
    ELSE IF p.b # Dirs[k] \/ ~InHour0(R.st, p, Dirs[k]) \/ dry_run
    THEN delete_scan(R, p, dry_run, k + 1)
    ELSE delete_found(R, p, Dirs[k])

delete_path(st, p, dry_run) ==
    IF ~exists(st[Slot("hour", 0)]) THEN Raise(Start(st), "FileNotFoundError")
    ELSE delete_scan(Start(st), p, dry_run, 1)

-----------------------------------------------------------------------------
(* Stores the operations start from *)

\* The store init_snapshots leaves in an empty base directory.
InitializedStore == [n \in Names |-> IF n \in Slots THEN EmptyDir ELSE Absent]

EmptyBase == [n \in Names |-> Absent]

\* A symlinked entry: the entry is a symbolic link to a directory outside
\* the workspace.
AsLink(e) == [e EXCEPT !.kind = "link"]

TierBase(t) ==
    CASE t = "hour" -> 100
      [] t = "day" -> 200
      [] t = "week" -> 300
      [] t = "month" -> 400

MarkOf(n) == TierBase(n.pre) + n.num + 1

\* Seeded stores: per tier the slots a..a+w-1 present (or exactly the
\* others), each holding its own marker or nothing, one slot possibly a
\* symlink to the outside.
SeedWidths == {1, 2, HourTop + 1}

LinkSeeds == {NoName, Slot("hour", HourTop), Slot("day", DayTop),
              Slot("week", WeekTop), Slot("month", MonthTop),
              Slot("week", 0)}

SeedStore(inside, a, w, marked, l) ==
    [n \in Names |->
        IF n \notin Slots THEN Absent
        ELSE LET e == IF marked THEN Marked(MarkOf(n)) ELSE EmptyDir
             IN  IF n = l THEN AsLink(e)
                 ELSE IF inside = (a <= n.num /\ n.num < a + w) THEN e
                 ELSE Absent]

\* Config: hsnaps, dsnaps, wsnaps, msnaps, 23/7/4/12 unless the file
\* sets them.
DefaultConfig ==
    [hsnaps |-> HourTop, dsnaps |-> DayTop, wsnaps |-> WeekTop,
     msnaps |-> MonthTop]

ConfigInputs ==
    {DefaultConfig, [hsnaps |-> 5, dsnaps |-> 3, wsnaps |-> 2, msnaps |-> 6]}

\* No concurrent invocation is running.
NoProcs == <<>>

NoOp == [op |-> "none", dry |-> FALSE, err |-> "none", ops |-> <<>>,
         a |-> NoName, b |-> NoName]

NoInput == [path |-> WS, wsroot |-> WS, cwd |-> WS.parts, eloop |-> TRUE]

NoOut == [op |-> "none", ok |-> FALSE, err |-> "none"]

-----------------------------------------------------------------------------
(* Operations *)

ChainKinds == {"rotate_hourly", "rotate_daily", "rotate_weekly",
               "rotate_monthly", "backup"}

\* The bound on a behaviour: MaxOps operations in any mix, or a run of up
\* to MaxRun operations of one kind from the initialised store; MaxRotOps
\* rotations from a seeded store.
Within ==
    IF regime = "seeded" THEN nops <= MaxRotOps
    ELSE nops <= MaxOps \/ (regime \in ChainKinds /\ run <= MaxRun)

\* Whether one more operation, continuing a run of kind, can stay within
\* the bound.
MayStep(kind) ==
    IF regime = "seeded" THEN nops < MaxRotOps
    ELSE \/ nops < MaxOps
         \/ kind \in ChainKinds /\ regime \in {"init", kind} /\ run < MaxRun

\* One call of a handler: R is its outcome, kind the run it continues.
Step(op, dry, R, a, b, kind) ==
    /\ MayStep(kind)
    /\ store' = R.st
    /\ pre' = store
    /\ last' = [op |-> op, dry |-> dry, err |-> R.err, ops |-> R.ops,
                a |-> a, b |-> b]
    /\ nops' = nops + 1
    /\ regime' = IF regime = "seeded" THEN "seeded"
                 ELSE IF kind \in ChainKinds /\ R.err = "none"
                         /\ regime \in {"init", kind}
                 THEN kind
                 ELSE IF kind = "init" /\ R.st = InitializedStore
                 THEN "init" ELSE "mixed"
    /\ run' = IF regime' \in ChainKinds THEN run + 1 ELSE 0
    /\ Within'
    /\ UNCHANGED <<root, pin, config, procs>>

\* An operation that returns nothing.
Do(op, dry, R, a, b, kind) ==
    /\ Step(op, dry, R, a, b, kind)
    /\ UNCHANGED pout

InitSnapshots ==
    /\ Do("init_snapshots", FALSE, init_snapshots(store), NoName, NoName,
          "init")
    /\ UNCHANGED hrot

RotateHourly(dry) ==
    LET R == rotate_hourly(store, dry)
    IN  /\ Do("rotate_hourly", dry, R, NoName, NoName,
              IF dry THEN "" ELSE "rotate_hourly")
        /\ hrot' = IF dry \/ R.err # "none" THEN hrot ELSE hrot + 1

RotateDaily(dry) ==
    /\ Do("rotate_daily", dry, rotate_daily(store, dry), NoName, NoName,
          IF dry THEN "" ELSE "rotate_daily")
    /\ UNCHANGED hrot

RotateWeekly(dry) ==
    /\ Do("rotate_weekly", dry, rotate_weekly(store, dry), NoName, NoName,
          IF dry THEN "" ELSE "rotate_weekly")
    /\ UNCHANGED hrot

RotateMonthly(dry) ==
    /\ Do("rotate_monthly", dry, rotate_monthly(store, dry), NoName, NoName,
          IF dry THEN "" ELSE "rotate_monthly")
    /\ UNCHANGED hrot

AllOk == [b \in Basenames |-> "ok"]

HourlyBackup(dry, oc) ==
    LET R == hourly_backup(store, dry, oc, hrot + 1)
    IN  /\ Do("hourly_backup", dry, R, oc, NoName,
              IF ~dry /\ oc = AllOk THEN "backup" ELSE "")
        /\ hrot' = IF dry \/ R.err # "none" THEN hrot ELSE hrot + 1

TagSources == {Slot("hour", 0), Slot("hour", 1), Slot("day", DayTop)}

TagInputs == TagNames \cup {Slot("hour", 5)}

Tag(snapshot_name, tag_name, dry) ==
    /\ Do("tag", dry, tag(store, snapshot_name, tag_name, dry),
          snapshot_name, tag_name, "")
    /\ UNCHANGED hrot

DeleteTagInputs == TagNames \cup {Slot("hour", 0)}

DeleteTag(tag_name, dry) ==
    /\ Do("delete_tag", dry, delete_tag(store, tag_name, dry),
          tag_name, NoName, "")
    /\ UNCHANGED hrot

SyncOutcomes == [Basenames -> {"ok", "fail"}]

Recover(snapshot_name, dry, oc) ==
    /\ Do("recover", dry, recover(store, snapshot_name, dry, oc),
          snapshot_name, oc, "")
    /\ UNCHANGED hrot

Undel(snapshot_name, dry, oc) ==
    /\ Do("undel", dry, undel(store, snapshot_name, dry, oc),
          snapshot_name, oc, "")
    /\ UNCHANGED hrot

DeletePath(p, dry) ==
    /\ Do("delete_path", dry, delete_path(store, p, dry),
          Comp(p.b), Comp(p.rel), "")
    /\ UNCHANGED hrot

-----------------------------------------------------------------------------
(* The tool on an initialised (or still empty) base directory *)

\* The directory a symlinked hour-0 points at holds a mirror of each source.
Mirrors == [b \in Basenames |-> [gen |-> 0, files |-> Files]]

InitStores ==
    {InitializedStore, EmptyBase,
     [InitializedStore EXCEPT ![Slot("hour", 0)] =
         [kind |-> "link", mark |-> 0, sub |-> Mirrors]],
     [InitializedStore EXCEPT ![Slot("hour", HourTop)] = AsLink(@)]}

\* The two listings read the base directory and return names.
Listing(op, names) ==
    [op |-> op, ok |-> TRUE, err |-> "none", names |-> names]

ListSnapshots ==
    /\ Step("list_snapshots", FALSE, Start(store), NoName, NoName, "")
    /\ pout' = Listing("list_snapshots", list_snapshots(store))
    /\ UNCHANGED hrot

ListTaggedSnapshots ==
    /\ Step("list_tagged_snapshots", FALSE, Start(store), NoName, NoName, "")
    /\ pout' = Listing("list_tagged_snapshots", list_tagged_snapshots(store))
    /\ UNCHANGED hrot

Init ==
    /\ store \in InitStores
    /\ root \in {NoRoot, WS}
    /\ pre = store
    /\ last = NoOp
    /\ nops = 0
    /\ regime = IF store = InitializedStore THEN "init" ELSE "mixed"
    /\ run = 0
    /\ hrot = 0
    /\ pin = NoInput
    /\ pout = NoOut
    /\ config = DefaultConfig
    /\ procs = NoProcs

Next ==
    \/ InitSnapshots
    \/ \E dry \in BOOLEAN : RotateHourly(dry)
    \/ \E dry \in BOOLEAN : RotateDaily(dry)
    \/ \E dry \in BOOLEAN : RotateWeekly(dry)
    \/ \E dry \in BOOLEAN : RotateMonthly(dry)
    \/ \E dry \in BOOLEAN, oc \in [Basenames -> Outcomes] :
           HourlyBackup(dry, oc)
    \/ \E s \in TagSources, t \in TagInputs, dry \in BOOLEAN : Tag(s, t, dry)
    \/ \E t \in DeleteTagInputs, dry \in BOOLEAN : DeleteTag(t, dry)
    \/ \E p \in DeletePathInputs, dry \in BOOLEAN : DeletePath(p, dry)
    \/ \E s \in TagSources, dry \in BOOLEAN, oc \in SyncOutcomes :
           Recover(s, dry, oc)
    \/ \E s \in TagSources, dry \in BOOLEAN, oc \in SyncOutcomes :
           Undel(s, dry, oc)
    \/ ListSnapshots
    \/ ListTaggedSnapshots

Spec == Init /\ [][Next]_vars

-----------------------------------------------------------------------------
(* The rotations on seeded stores *)

InitRotate ==
    /\ \E inside \in BOOLEAN, a \in 0..(HourTop + 1), w \in SeedWidths,
          marked \in BOOLEAN, l \in LinkSeeds :
          store = SeedStore(inside, a, w, marked, l)
    /\ root \in {NoRoot, WS}
    /\ pre = store
    /\ last = NoOp
    /\ nops = 0
    /\ regime = "seeded"
    /\ run = 0
    /\ hrot = 0
    /\ pin = NoInput
    /\ pout = NoOut
    /\ config \in ConfigInputs
    /\ procs = NoProcs

NextRotate ==
    \/ \E dry \in BOOLEAN : RotateHourly(dry)
    \/ \E dry \in BOOLEAN : RotateDaily(dry)
    \/ \E dry \in BOOLEAN : RotateWeekly(dry)
    \/ \E dry \in BOOLEAN : RotateMonthly(dry)

SpecRotate == InitRotate /\ [][NextRotate]_vars

-----------------------------------------------------------------------------
(* The path-safety functions on input paths *)

PathAlphabet ==
    {Comp(s) : s \in {"ws", "out", "inside", "link", "broken", "loop",
                      "locked", "missing", ".."}}

PathSeqs == UNION {[1..n -> PathAlphabet] : n \in 0..MaxDepth}

RootInputs == {WS, Abs(<<Comp("ws"), Comp("inside")>>)}

CwdInputs == {WS.parts, OutDir}

PathInputs ==
    {[path |-> Abs(q), wsroot |-> r, cwd |-> WS.parts, eloop |-> e] :
        q \in PathSeqs, r \in RootInputs, e \in BOOLEAN}
    \cup
    {[path |-> Rel(q), wsroot |-> r, cwd |-> c, eloop |-> e] :
        q \in PathSeqs, r \in RootInputs, c \in CwdInputs, e \in BOOLEAN}

InitPath ==
    /\ store = InitializedStore
    /\ root = WS
    /\ pre = store
    /\ last = NoOp
    /\ nops = 0
    /\ regime = "mixed"
    /\ run = 0
    /\ hrot = 0
    /\ pin \in PathInputs
    /\ pout = NoOut
    /\ config = DefaultConfig
    /\ procs = NoProcs

CallIsSafe ==
    /\ pout' = [op |-> "is_safe_workspace_path",
                ok |-> is_safe_workspace_path(store, pin.path, pin.wsroot,
                                              pin.cwd, pin.eloop),
                err |-> "none"]
    /\ UNCHANGED <<store, root, pre, last, nops, regime, run, hrot, pin,
                       config, procs>>

CallValidate ==
    LET e == validate_workspace_path(store, pin.path, pin.wsroot,
                                     pin.cwd, pin.eloop)
    IN  /\ pout' = [op |-> "validate_workspace_path", ok |-> e = "none",
                    err |-> e]
        /\ UNCHANGED <<store, root, pre, last, nops, regime, run, hrot, pin,
                       config, procs>>

NextPath == CallIsSafe \/ CallValidate

SpecPath == InitPath /\ [][NextPath]_vars

-----------------------------------------------------------------------------
(* create_hard_link_copy on directory trees, file by file *)

\* The files a tree may hold and the directory each lies in ("" is the
\* root of the tree).
TreeDirs == {"d"}

TreeFiles == {"a", "d/c"}

DirOf(f) == IF f = "d/c" THEN "d" ELSE ""

Data == {"x", "y"}

\* A regular file: its inode (identified by where it was created) and its
\* bytes.
NoFile == [ino |-> <<"", "">>, data |-> ""]

NoTree ==
    [present |-> FALSE, dirs |-> {},
     files |-> [f \in TreeFiles |-> NoFile]]

\* The trees of one side: absent, or a directory with any of the
\* subdirectories and any of the files whose directory it has.
FilesOf(side, ds) ==
    {g \in [TreeFiles -> {NoFile} \cup
                {[ino |-> <<side, f>>, data |-> d] :
                    f \in TreeFiles, d \in Data}] :
        \A f \in TreeFiles :
            g[f] # NoFile => /\ g[f].ino = <<side, f>>
                             /\ DirOf(f) \in ds \cup {""}}

TreesOf(side) ==
    {NoTree} \cup
    UNION {{[present |-> TRUE, dirs |-> ds, files |-> fs] :
               fs \in FilesOf(side, ds)} : ds \in SUBSET TreeDirs}

\* A destination file left by an earlier hard-link copy of the same source
\* shares the source file's inode.
Relinked(src, dst) ==
    [dst EXCEPT !.files = [f \in TreeFiles |->
        IF dst.files[f] # NoFile /\ src.files[f] # NoFile
        THEN src.files[f] ELSE dst.files[f]]]

CopyInputs ==
    {[src |-> s, dst |-> d, fails |-> x] :
        s \in TreesOf("src"), d \in TreesOf("dst"),
        x \in SUBSET TreeFiles}
    \cup
    {[src |-> s, dst |-> Relinked(s, d), fails |-> {}] :
        s \in TreesOf("src"), d \in TreesOf("dst")}

\* A copy that never links.
copy_always(file, f, failed) == [ino |-> <<"new", f>>, data |-> file.data]

\* os.link(src_file, dst_file); on OSError shutil.copy2(src_file, dst_file):
\* the link is the source's inode, the copy a new file with its bytes.
link_or_copy(file, f, failed) ==
    IF failed THEN [ino |-> <<"new", f>>, data |-> file.data] ELSE file

\* The os.walk loop: each directory of src is made in dst, each file of src
\* replaces its namesake in dst; nothing else of dst is touched.
walk(src, made, fails) ==
    [present |-> TRUE,
     dirs |-> made.dirs \cup src.dirs,
     files |-> [f \in TreeFiles |->
                   IF src.files[f] # NoFile
                   THEN link_or_copy(src.files[f], f, f \in fails)
                   ELSE made.files[f]]]

\* create_hard_link_copy(src, dst); fails are the files os.link refuses.
hard_link_copy(src, dst, fails) ==
    IF ~src.present THEN [err |-> "FileNotFoundError", dst |-> dst]
    ELSE [err |-> "none", dst |-> walk(src, dst, fails)]

InitCopy ==
    /\ store = InitializedStore
    /\ root = NoRoot
    /\ pre = store
    /\ last = NoOp
    /\ nops = 0
    /\ regime = "mixed"
    /\ run = 0
    /\ hrot = 0
    /\ pin \in CopyInputs
    /\ pout = NoOut
    /\ config = DefaultConfig
    /\ procs = NoProcs

CallCopy ==
    LET r == hard_link_copy(pin.src, pin.dst, pin.fails)
    IN  /\ pout' = [op |-> "create_hard_link_copy", ok |-> r.err = "none",
                    err |-> r.err, dst |-> r.dst]
        /\ UNCHANGED <<store, root, pre, last, nops, regime, run, hrot, pin,
                       config, procs>>

NextCopy == CallCopy

SpecCopy == InitCopy /\ [][NextCopy]_vars

-----------------------------------------------------------------------------

(* snapshot_to_hours and sort_snapshots_by_age on lists of names *)

\* re.match(r"(hour|day|week|month)-(\d+)", name): a tier prefix followed
\* by digits, whatever comes after them; then the hours the name stands
\* for, 999999 for a name without such a beginning.
snapshot_to_hours(n) ==
    IF ~(n.pre \in Tiers /\ n.num >= 0) THEN 999999
    ELSE CASE n.pre = "hour" -> n.num
           [] n.pre = "day" -> (n.num + 1) * 24
           [] n.pre = "week" -> (n.num + 1) * 24 * 7
           [] n.pre = "month" -> (n.num + 1) * 24 * 30

\* One step of sorted(): x goes behind every element whose key is not
\* larger than its own (the sort is stable).
insort(s, x) ==
    LET k == Cardinality({i \in 1..Len(s) :
                 snapshot_to_hours(s[i]) <= snapshot_to_hours(x)})
    IN  SubSeq(s, 1, k) \o <<x>> \o SubSeq(s, k + 1, Len(s))

RECURSIVE sorted(_, _)
sorted(done, rest) ==
    IF rest = <<>> THEN done
    ELSE sorted(insort(done, Head(rest)), Tail(rest))

\* sorted(snapshots, key=snapshot_to_hours)
sort_snapshots_by_age(snapshots) == sorted(<<>>, snapshots)

\* Names that are listed: slots of every tier, and tags, among them tags
\* that begin like a slot name ("hour-5-old", "day-0-old").
AgeNames ==
    {Slot("hour", 0), Slot("hour", 5), Slot("hour", HourTop),
     Slot("day", 0), Slot("day", DayTop), Slot("week", 0),
     Slot("week", WeekTop), Slot("month", 0), Slot("month", MonthTop),
     Comp("before-upgrade"), Comp("my-tag"), N("hour", -1, "old"),
     N("hour", 5, "-old"), N("day", 0, "-old")}

AgeInputs == UNION {[1..n -> AgeNames] : n \in 0..MaxList}

InitAge ==
    /\ store = InitializedStore
    /\ root = NoRoot
    /\ pre = store
    /\ last = NoOp
    /\ nops = 0
    /\ regime = "mixed"
    /\ run = 0
    /\ hrot = 0
    /\ pin \in AgeInputs
    /\ pout = NoOut
    /\ config = DefaultConfig
    /\ procs = NoProcs

CallHours ==
    /\ Len(pin) = 1
    /\ pout' = [op |-> "snapshot_to_hours", ok |-> TRUE, err |-> "none",
                out |-> snapshot_to_hours(pin[1])]
    /\ UNCHANGED <<store, root, pre, last, nops, regime, run, hrot, pin,
                       config, procs>>

CallSort ==
    /\ pout' = [op |-> "sort_snapshots_by_age", ok |-> TRUE, err |-> "none",
                out |-> sort_snapshots_by_age(pin)]
    /\ UNCHANGED <<store, root, pre, last, nops, regime, run, hrot, pin,
                       config, procs>>

NextAge == CallHours \/ CallSort

SpecAge == InitAge /\ [][NextAge]_vars

-----------------------------------------------------------------------------

(* is_dangerous_targetbase on candidate base directories *)

\* system_dirs, as far as the world has them ("/" is the empty path).
SystemDirs ==
    {<<>>, <<Comp("home")>>, <<Comp("usr")>>, <<Comp("etc")>>,
     <<Comp("bin")>>, <<Comp("tmp")>>}

\* Path.home().resolve()
Home == <<Comp("home"), Comp("user")>>

\* The directories of the world that are no symbolic links.
WorldDirs ==
    {<<>>, <<Comp("etc")>>, <<Comp("usr")>>, <<Comp("usr"), Comp("bin")>>,
     <<Comp("home")>>, Home, <<Comp("tmp")>>, OutDir, WS.parts, Locked,
     <<Comp("ws"), Comp(".snapshots")>>}

\* Path.stat() as the kernel walks the path from directory cur: ENOENT for
\* a name that is not there, EACCES for a lookup in the directory without
\* search permission, ELOOP after too many symbolic links.
RECURSIVE os_stat(_, _, _)
os_stat(cur, rest, hops) ==
    IF rest = <<>> THEN "ok"
    ELSE IF cur = Locked THEN "EACCES"
    ELSE IF Head(rest) = DotDot
    THEN os_stat(IF cur = <<>> THEN <<>> ELSE SubSeq(cur, 1, Len(cur) - 1),
                 Tail(rest), hops)
    ELSE IF Append(cur, Head(rest)) \in StaticLinks
    THEN IF hops >= MaxHops THEN "ELOOP"
         ELSE os_stat(<<>>, readlink(Append(cur, Head(rest))) \o Tail(rest),
                      hops + 1)
    ELSE IF Append(cur, Head(rest)) \in WorldDirs
    THEN os_stat(Append(cur, Head(rest)), Tail(rest), hops)
    ELSE "ENOENT"

\* A path as written in the configuration: tilde says that it begins with
\* "~/" (then abs is FALSE: the raw string is not absolute).
Raw(tilde, abs, parts) == [tilde |-> tilde, abs |-> abs, parts |-> parts]

\* expand_path: os.path.expanduser puts the home directory for the tilde.
expand_path(path) ==
    IF path.tilde THEN Abs(Home \o path.parts)
    ELSE [abs |-> path.abs, parts |-> path.parts]

\* Path.absolute(): the working directory in front, nothing normalised.
absolute(p, cwd) == IF p.abs THEN p.parts ELSE cwd \o p.parts

\* expanded.resolve() if expanded.exists() else expanded.absolute();
\* Path.exists() answers False on ENOENT, ENOTDIR and ELOOP and lets any
\* other OSError through.
resolved_or_absolute(expanded, cwd) ==
    IF os_stat(<<>>, absolute(expanded, cwd), 0) = "ok"
    THEN realpath(InitializedStore, expanded, cwd)
    ELSE absolute(expanded, cwd)

Danger(reason) == [dangerous |-> TRUE, reason |-> reason]

is_dangerous_targetbase(path, is_local, cwd) ==
    IF os_stat(<<>>, absolute(expand_path(path), cwd), 0) = "EACCES"
    THEN Danger("Path cannot be resolved")
    ELSE IF \/ resolved_or_absolute(expand_path(path), cwd) \in SystemDirs
            \/ absolute(expand_path(path), cwd) \in SystemDirs
    THEN Danger("Cannot use system directory")
    ELSE IF resolved_or_absolute(expand_path(path), cwd) = Home
    THEN Danger("Cannot use home directory root")
    ELSE IF is_local /\ \E k \in 1..Len(path.parts) : path.parts[k] = DotDot
    THEN Danger("Parent directory references (..) not allowed")
    ELSE IF is_local /\ path.abs
    THEN Danger("Absolute paths not recommended in local mode")
    ELSE [dangerous |-> FALSE, reason |-> ""]

DangerAlphabet ==
    {Comp(s) : s \in {"etc", "usr", "bin", "home", "user", "ws", "link",
                      "etclink", "loop", "locked", "missing", ".snapshots",
                      ".."}}

DangerSeqs == UNION {[1..n -> DangerAlphabet] : n \in 0..MaxDepth}

DangerInputs ==
    {[path |-> Raw(FALSE, a, q), is_local |-> l, cwd |-> WS.parts] :
        a \in BOOLEAN, q \in DangerSeqs, l \in BOOLEAN}
    \cup
    {[path |-> Raw(TRUE, FALSE, q), is_local |-> l, cwd |-> WS.parts] :
        q \in DangerSeqs, l \in BOOLEAN}

InitDanger ==
    /\ store = InitializedStore
    /\ root = NoRoot
    /\ pre = store
    /\ last = NoOp
    /\ nops = 0
    /\ regime = "mixed"
    /\ run = 0
    /\ hrot = 0
    /\ pin \in DangerInputs
    /\ pout = NoOut
    /\ config = DefaultConfig
    /\ procs = NoProcs

CallIsDangerous ==
    LET r == is_dangerous_targetbase(pin.path, pin.is_local, pin.cwd)
    IN  /\ pout' = [op |-> "is_dangerous_targetbase", ok |-> ~r.dangerous,
                    err |-> "none", reason |-> r.reason]
        /\ UNCHANGED <<store, root, pre, last, nops, regime, run, hrot, pin,
                       config, procs>>

NextDanger == CallIsDangerous

SpecDanger == InitDanger /\ [][NextDanger]_vars

-----------------------------------------------------------------------------
(* Two rotations at once on the same base directory, one filesystem call   *)
(* at a time                                                               *)

\* for i in range(top - 1, -1, -1): the statements of the loop, in order.
RECURSIVE Shifts(_, _)
Shifts(t, i) ==
    IF i < 0 THEN <<>>
    ELSE <<[op |-> "move", src |-> Slot(t, i), dst |-> Slot(t, i + 1)]>>
         \o Shifts(t, i - 1)

\* The statements of a rotation in program order.  Each tests its source
\* with exists() and then, in a call of its own, acts on what it saw.
Program(kind) ==
    CASE kind = "rotate_hourly" ->
            <<[op |-> "evict", src |-> Slot("hour", HourTop), dst |-> NoName]>>
            \o Shifts("hour", HourTop - 1)
      [] kind = "rotate_daily" ->
            <<[op |-> "promote", src |-> Slot("day", DayTop),
               dst |-> Slot("week", 0)]>>
            \o Shifts("day", DayTop - 1)
            \o <<[op |-> "move", src |-> Slot("hour", HourTop),
                  dst |-> Slot("day", 0)]>>

\* The call that the conditions of a statement select in store st.
Test(st, ins) ==
    CASE ins.op = "promote" ->
            IF exists(st[ins.src]) /\ ~exists(st[ins.dst]) THEN "rename"
            ELSE IF exists(st[ins.src]) THEN "rmtree" ELSE "skip"
      [] ins.op = "evict" ->
            IF exists(st[ins.src]) THEN "rmtree" ELSE "skip"
      [] OTHER -> IF exists(st[ins.src]) THEN "rename" ELSE "skip"

\* src.rename(dst) as a call of its own: the source may have gone since
\* it was tested (ENOENT).
rename_call(R, a, b) ==
    IF ~exists(R.st[a]) THEN Raise(R, "FileNotFoundError")
    ELSE rename(R, a, b)

\* The call selected by the test, on the store as it is now.
Act(st, ins, call) ==
    IF call = "rename" THEN rename_call(Start(st), ins.src, ins.dst)
    ELSE safe_rmtree(Start(st), ins.src)

\* An invocation: its rotation, the statement it is at, the call its test
\* selected ("none" before the test), the exception that ended it, whether
\* it made the latest call of the two, how often the other invocation
\* interrupted it, and whether it ever ran while the other was under way.
Invocation(kind) ==
    [kind |-> kind, pc |-> 1, call |-> "none", err |-> "none",
     running |-> FALSE, preempted |-> 0, mixed |-> FALSE]

Began(p) == p.pc > 1 \/ p.call # "none" \/ p.err # "none"

Finished(p) == p.err # "none" \/ p.pc > Len(Program(p.kind))

UnderWay(p) == Began(p) /\ ~Finished(p)

Invocations == {1, 2}

Other(i) == 3 - i

RaceStores ==
    {SeedStore(TRUE, 0, HourTop + 1, TRUE, NoName),
     SeedStore(FALSE, 0, 1, TRUE, NoName),
     InitializedStore}

RacePairs ==
    {<<Invocation("rotate_hourly"), Invocation("rotate_hourly")>>,
     <<Invocation("rotate_hourly"), Invocation("rotate_daily")>>}

InitRace ==
    /\ store \in RaceStores
    /\ root = WS
    /\ pre = store
    /\ last = NoOp
    /\ nops = 0
    /\ regime = "mixed"
    /\ run = 0
    /\ hrot = 0
    /\ pin = NoInput
    /\ pout = NoOut
    /\ config = DefaultConfig
    /\ procs \in RacePairs

RaceFrame ==
    UNCHANGED <<root, pre, last, nops, regime, run, hrot, pin, pout, config>>

\* The statement invocation i is at.
Current(i) == Program(procs[i].kind)[procs[i].pc]

\* Whether a call of invocation i interrupts the other invocation.
Interrupts(i) == procs[Other(i)].running /\ UnderWay(procs[Other(i)])

\* The scheduler lets invocation i run: at most MaxPreempt interruptions.
Scheduled(i) ==
    /\ ~Finished(procs[i])
    /\ Interrupts(i) =>
           procs[1].preempted + procs[2].preempted < MaxPreempt

\* Invocation i evaluates the conditions of its statement.
TestStep(i) ==
    /\ Scheduled(i)
    /\ procs[i].call = "none"
    /\ procs' = [procs EXCEPT
           ![i].call = IF Test(store, Current(i)) = "skip" THEN "none"
                       ELSE Test(store, Current(i)),
           ![i].pc = IF Test(store, Current(i)) = "skip" THEN @ + 1 ELSE @,
           ![i].running = TRUE,
           ![i].mixed = @ \/ UnderWay(procs[Other(i)]),
           ![Other(i)].running = FALSE,
           ![Other(i)].preempted = IF Interrupts(i) THEN @ + 1 ELSE @]
    /\ UNCHANGED store
    /\ RaceFrame

\* Invocation i makes the call its test selected; an exception ends it.
ActStep(i) ==
    /\ Scheduled(i)
    /\ procs[i].call # "none"
    /\ store' = Act(store, Current(i), procs[i].call).st
    /\ procs' = [procs EXCEPT
           ![i].err = Act(store, Current(i), procs[i].call).err,
           ![i].call = "none",
           ![i].pc = @ + 1,
           ![i].running = TRUE,
           ![i].mixed = @ \/ UnderWay(procs[Other(i)]),
           ![Other(i)].running = FALSE,
           ![Other(i)].preempted = IF Interrupts(i) THEN @ + 1 ELSE @]
    /\ RaceFrame

NextRace ==
    \/ \E i \in Invocations : TestStep(i)
    \/ \E i \in Invocations : ActStep(i)

SpecRace == InitRace /\ [][NextRace]_vars

-----------------------------------------------------------------------------
(* Long runs from the initialised store: hourly backups, then daily, then  *)
(* weekly, then monthly rotations                                          *)

\* The order in which the runs of a behaviour follow each other.
Rank(op) ==
    CASE op = "hourly_backup" -> 1
      [] op = "rotate_daily" -> 2
      [] op = "rotate_weekly" -> 3
      [] op = "rotate_monthly" -> 4
      [] OTHER -> 0

\* The tier an operation of a run turns.
RunTier(op) ==
    CASE op = "rotate_daily" -> "day"
      [] op = "rotate_weekly" -> "week"
      [] op = "rotate_monthly" -> "month"
      [] OTHER -> "hour"

\* A run is long enough to carry a snapshot through its tier and past it.
MayRun(op) ==
    /\ Rank(op) >= Rank(last.op)
    /\ (IF last.op = op THEN run ELSE 0) < Top(RunTier(op)) + MaxExtra

\* One call of a handler in a run: R is its outcome.
Cron(op, R, a) ==
    /\ MayRun(op)
    /\ store' = R.st
    /\ pre' = store
    /\ last' = [op |-> op, dry |-> FALSE, err |-> R.err, ops |-> R.ops,
                a |-> a, b |-> NoName]
    /\ nops' = nops + 1
    /\ run' = IF last.op = op THEN run + 1 ELSE 1
    /\ UNCHANGED <<root, regime, pin, pout, config, procs>>

CronBackup ==
    /\ Cron("hourly_backup", hourly_backup(store, FALSE, AllOk, hrot + 1),
            AllOk)
    /\ hrot' = hrot + 1

CronDaily ==
    /\ Cron("rotate_daily", rotate_daily(store, FALSE), NoName)
    /\ UNCHANGED hrot

CronWeekly ==
    /\ Cron("rotate_weekly", rotate_weekly(store, FALSE), NoName)
    /\ UNCHANGED hrot

CronMonthly ==
    /\ Cron("rotate_monthly", rotate_monthly(store, FALSE), NoName)
    /\ UNCHANGED hrot

InitCron ==
    /\ store = InitializedStore
    /\ root \in {NoRoot, WS}
    /\ pre = store
    /\ last = NoOp
    /\ nops = 0
    /\ regime = "scheduled"
    /\ run = 0
    /\ hrot = 0
    /\ pin = NoInput
    /\ pout = NoOut
    /\ config = DefaultConfig
    /\ procs = NoProcs

NextCron == CronBackup \/ CronDaily \/ CronWeekly \/ CronMonthly

SpecCron == InitCron /\ [][NextCron]_vars

-----------------------------------------------------------------------------
(* Rotations and hourly backups, in any order, on stores whose slots hold  *)
(* snapshots in the order of their age                                     *)

AllFail == [b \in Basenames |-> "fail"]

\* Stores filled by earlier runs: in each tier a window of present slots
\* or its complement, every present slot holding its own snapshot, the
\* higher index and the higher tier the older one.
InitOrder ==
    /\ \E inside \in BOOLEAN, a \in 0..(HourTop + 1), w \in SeedWidths :
          store = SeedStore(inside, a, w, TRUE, NoName)
    /\ root = WS
    /\ pre = store
    /\ last = NoOp
    /\ nops = 0
    /\ regime = "seeded"
    /\ run = 0
    /\ hrot = 0
    /\ pin = NoInput
    /\ pout = NoOut
    /\ config = DefaultConfig
    /\ procs = NoProcs

NextOrder ==
    \/ RotateHourly(FALSE)
    \/ RotateDaily(FALSE)
    \/ RotateWeekly(FALSE)
    \/ RotateMonthly(FALSE)
    \/ \E oc \in {AllOk, AllFail} : HourlyBackup(FALSE, oc)

SpecOrder == InitOrder /\ [][NextOrder]_vars

-----------------------------------------------------------------------------

(* Properties *)

Hour(i) == Slot("hour", i)

Day(i) == Slot("day", i)

Week(i) == Slot("week", i)

Month(i) == Slot("month", i)

\* The last operation was op, not a dry run, and returned without raising.
Ran(op) == last.op = op /\ ~last.dry /\ last.err = "none"

\* C1: after one rotate_hourly that is no dry run and returns normally,
\* hour-(i+1) is exactly what hour-i was before (present iff it was present,
\* with its content) for every i in 0..22, hour-0 is absent, and the marker
\* hour-23 held before the call is in no hour slot.
C1_HourlyShift ==
    Ran("rotate_hourly") =>
        /\ \A i \in 0..(HourTop - 1) : store[Hour(i + 1)] = pre[Hour(i)]
        /\ ~exists(store[Hour(0)])
        /\ pre[Hour(HourTop)].mark # 0 =>
               \A i \in 0..HourTop :
                   store[Hour(i)].mark # pre[Hour(HourTop)].mark

\* All 24 hour slots held their own marker and the rotation has run.
C1_Witness ==
    /\ Ran("rotate_hourly")
    /\ \A i \in 0..HourTop : pre[Hour(i)] = Marked(MarkOf(Hour(i)))
    /\ store[Hour(HourTop)].mark = MarkOf(Hour(HourTop - 1))

\* The generation of the content of slot n (-1 when it holds no mirror).
Gen(n, b) == store[n].sub[b].gen

\* C2: in a run of hourly backups from the initialised store (each rotates
\* the hour tier and then repopulates hour-0 with fresh content), the content
\* written by the backup k rotations ago is in hour-k for k <= 23, newer
\* content is at lower indices, and content older than 23 rotations is in no
\* hour slot.
C2_HourFifo ==
    regime = "backup" =>
        \A i \in 0..HourTop : \A b \in Basenames :
            Gen(Hour(i), b) = IF i < run THEN hrot - i ELSE -1

\* The first content has reached hour-23 / has left the tier.
C2_Witness ==
    /\ regime = "backup"
    /\ run = HourTop + 2
    /\ \A b \in Basenames : Gen(Hour(HourTop), b) = hrot - HourTop
    /\ \A i \in 0..HourTop : \A b \in Basenames :
           Gen(Hour(i), b) > hrot - run + 1

AllExist(t) == \A i \in 0..Top(t) : exists(store[Slot(t, i)])

\* C3 as stated: after any number (one or more) of rotations of one tier
\* from the initialised store, every slot of that tier exists.
C3_RingAsStated ==
    /\ regime = "rotate_hourly" => AllExist("hour")
    /\ regime = "rotate_daily" => AllExist("day")
    /\ regime = "rotate_weekly" => AllExist("week")
    /\ regime = "rotate_monthly" => AllExist("month")

\* C3, amended: after k >= 1 rotations of one tier from the initialised
\* store, hour-i exists exactly for i >= k; day-i (month-i) exists exactly
\* for i >= k - 1, the first rotation being fed by hour-23 (week-4); every
\* week slot exists, rotate_weekly refilling week-0 from day-7 each time.
C3_RingAmended ==
    /\ regime = "rotate_hourly" =>
           \A i \in 0..HourTop : exists(store[Hour(i)]) <=> i >= run
    /\ regime = "rotate_daily" =>
           \A i \in 0..DayTop : exists(store[Day(i)]) <=> i >= run - 1
    /\ regime = "rotate_weekly" => AllExist("week")
    /\ regime = "rotate_monthly" =>
           \A i \in 0..MonthTop : exists(store[Month(i)]) <=> i >= run - 1

\* Two hourly rotations from the initialised store: hour-0 and hour-1 are
\* absent, hour-2 exists.
C3_Witness ==
    /\ regime = "rotate_hourly"
    /\ run = 2
    /\ ~exists(store[Hour(0)])
    /\ ~exists(store[Hour(1)])
    /\ exists(store[Hour(2)])

\* What a snapshot directory holds, however it is reached.
Content(e) == [mark |-> e.mark, sub |-> e.sub]

\* C4: when day-7 is present and a rotate_weekly that is no dry run returns
\* normally, day-7 is as it was, week-0 is a directory holding what day-7
\* holds, and week-(i+1) is what week-i was for every i in 0..3.
C4_WeeklyCopies ==
    (Ran("rotate_weekly") /\ exists(pre[Day(DayTop)])) =>
        /\ store[Day(DayTop)] = pre[Day(DayTop)]
        /\ exists(store[Week(0)])
        /\ Content(store[Week(0)]) = Content(pre[Day(DayTop)])
        /\ \A i \in 0..(WeekTop - 1) : store[Week(i + 1)] = pre[Week(i)]

\* day-7 and week-0..week-3 held their own markers and the rotation has run.
C4_Witness ==
    /\ Ran("rotate_weekly")
    /\ pre[Day(DayTop)] = Marked(MarkOf(Day(DayTop)))
    /\ \A i \in 0..(WeekTop - 1) : pre[Week(i)] = Marked(MarkOf(Week(i)))
    /\ store[Week(0)].mark = MarkOf(Day(DayTop))

\* C5: after a rotate_monthly that is no dry run and returns normally, the
\* marker month-12 held is in no month slot, month-(i+1) is what month-i was
\* for every i in 0..11, and month-0 is what week-4 was, week-4 being absent
\* (so month-0 is absent when week-4 was).
C5_MonthlyMoves ==
    Ran("rotate_monthly") =>
        /\ pre[Month(MonthTop)].mark # 0 =>
               \A i \in 0..MonthTop :
                   store[Month(i)].mark # pre[Month(MonthTop)].mark
        /\ \A i \in 0..(MonthTop - 1) : store[Month(i + 1)] = pre[Month(i)]
        /\ store[Month(0)] = pre[Week(WeekTop)]
        /\ ~exists(store[Week(WeekTop)])

\* week-4 and all month slots held their own markers; month-0 now holds
\* week-4's.
C5_Witness ==
    /\ Ran("rotate_monthly")
    /\ pre[Week(WeekTop)] = Marked(MarkOf(Week(WeekTop)))
    /\ \A i \in 0..MonthTop : pre[Month(i)] = Marked(MarkOf(Month(i)))
    /\ store[Month(0)].mark = MarkOf(Week(WeekTop))

\* C6: after a rotate_daily that is no dry run and returns normally,
\* day-(i+1) is what day-i was for every i in 0..6, and day-0 is what
\* hour-23 was, hour-23 being absent (so day-0 is absent when hour-23 was).
C6_DailyMoves ==
    Ran("rotate_daily") =>
        /\ \A i \in 0..(DayTop - 1) : store[Day(i + 1)] = pre[Day(i)]
        /\ store[Day(0)] = pre[Hour(HourTop)]
        /\ ~exists(store[Hour(HourTop)])

\* hour-23 and day-0..day-6 held their own markers; day-0 now holds
\* hour-23's.
C6_Witness ==
    /\ Ran("rotate_daily")
    /\ pre[Hour(HourTop)] = Marked(MarkOf(Hour(HourTop)))
    /\ \A i \in 0..(DayTop - 1) : pre[Day(i)] = Marked(MarkOf(Day(i)))
    /\ store[Day(0)].mark = MarkOf(Hour(HourTop))

\* C7 as stated: with a workspace root defined, no filesystem operation of
\* any handler (create, rename, delete, copy, sync) acts on a path that
\* resolves outside the workspace root.
C7_Confined ==
    root # NoRoot => \A k \in 1..Len(last.ops) : ~last.ops[k].outside

Rotations == {"rotate_hourly", "rotate_daily", "rotate_weekly",
              "rotate_monthly"}

\* The slot a rotation deletes first in store fs (NoName when it deletes
\* none): the top slot of its tier, for the day and week tiers only when
\* the next tier's slot 0 is occupied.
Condemned(op, fs) ==
    CASE op = "rotate_hourly" ->
             IF exists(fs[Hour(HourTop)]) THEN Hour(HourTop) ELSE NoName
      [] op = "rotate_daily" ->
             IF exists(fs[Day(DayTop)]) /\ exists(fs[Week(0)])
             THEN Day(DayTop) ELSE NoName
      [] op = "rotate_weekly" ->
             IF exists(fs[Week(WeekTop)]) /\ exists(fs[Month(0)])
             THEN Week(WeekTop) ELSE NoName
      [] op = "rotate_monthly" ->
             IF exists(fs[Month(MonthTop)]) THEN Month(MonthTop) ELSE NoName
      [] OTHER -> NoName

\* The last operation was a rotation, no dry run, in local mode, and the
\* slot it had to delete resolved outside the workspace root.
GateHit ==
    /\ last.op \in Rotations
    /\ ~last.dry
    /\ root # NoRoot
    /\ Condemned(last.op, pre) # NoName
    /\ ~is_safe_workspace_path(pre, get_snapshot_path(Condemned(last.op, pre)),
                               root, ToolCwd, TRUE)

\* C8: in local mode, a rotation whose slot to delete resolves outside the
\* workspace root raises ValueError, performs no filesystem operation and
\* leaves the whole store as it was.
C8_GateAborts ==
    GateHit => /\ last.err = "ValueError"
               /\ last.ops = <<>>
               /\ store = pre

\* rotate_daily met a symlinked day-7 with week-0 occupied.
C8_Witness ==
    /\ GateHit
    /\ last.op = "rotate_daily"
    /\ pre[Day(DayTop)].kind = "link"
    /\ exists(pre[Day(0)])
    /\ store = pre

HasDotDot(path) == \E k \in 1..Len(path.parts) : path.parts[k] = DotDot

\* C9: validate_workspace_path raises whenever the raw path has a ".."
\* component and whenever is_safe_workspace_path is false, and returns
\* normally exactly when neither is the case.
C9_Validate ==
    pout.op = "validate_workspace_path" =>
        (pout.err = "none" <=>
            /\ ~HasDotDot(pin.path)
            /\ is_safe_workspace_path(store, pin.path, pin.wsroot, pin.cwd,
                                      pin.eloop))

\* A path with ".." that resolves inside the root was rejected.
C9_Witness ==
    /\ pout.op = "validate_workspace_path"
    /\ HasDotDot(pin.path)
    /\ is_safe_workspace_path(store, pin.path, pin.wsroot, pin.cwd, pin.eloop)
    /\ pout.err # "none"

\* What stops a strict resolution of a path: a symbolic link whose target
\* does not exist (broken), a lookup inside the directory without search
\* permission (denied), a symbolic link cycle (loop).
Missing == <<Comp("ws"), Comp("missing")>>

RECURSIVE failure(_, _, _, _)
failure(fs, cur, rest, hops) ==
    IF rest = <<>> THEN "none"
    ELSE IF Head(rest) = DotDot
    THEN failure(fs, IF cur = <<>> THEN <<>>
                     ELSE SubSeq(cur, 1, Len(cur) - 1), Tail(rest), hops)
    ELSE IF cur = Locked THEN "denied"
    ELSE IF IsLinkAt(fs, Append(cur, Head(rest)))
    THEN IF hops >= MaxHops THEN "loop"
         ELSE IF readlink(Append(cur, Head(rest))) = Missing THEN "broken"
         ELSE failure(fs, <<>>,
                      readlink(Append(cur, Head(rest))) \o Tail(rest), hops + 1)
    ELSE failure(fs, Append(cur, Head(rest)), Tail(rest), hops)

Fails(fs, path, cwd) ==
    failure(fs, IF path.abs THEN <<>> ELSE cwd, path.parts, 0)

\* C10 as stated: is_safe_workspace_path returns True only when both paths
\* resolve without failure (no broken symlink, no permission error, no
\* symlink cycle).
C10_FailsClosed ==
    (pout.op = "is_safe_workspace_path" /\ pout.ok) =>
        /\ Fails(store, pin.path, pin.cwd) = "none"
        /\ Fails(store, pin.wsroot, pin.cwd) = "none"

\* C11: an operation called with dry_run leaves the whole store exactly as
\* it was and performs no file-system operation, whether it returns or
\* raises: the four rotations, hourly_backup, tag, delete_tag, delete_path.
C11_DryRunFrame == last.dry => store = pre /\ last.ops = <<>>

\* A dry-run hourly_backup returned normally on a store that the same call
\* without dry_run changes.
C11_Witness ==
    /\ last.dry /\ last.op = "hourly_backup" /\ last.err = "none"
    /\ exists(pre[Hour(0)])
    /\ hourly_backup(pre, FALSE, AllOk, 1).st # pre

\* The tier a rotation rotates.
TierOf(op) ==
    CASE op = "rotate_hourly" -> "hour"
      [] op = "rotate_daily" -> "day"
      [] op = "rotate_weekly" -> "week"
      [] op = "rotate_monthly" -> "month"
      [] OTHER -> "hour"

\* The last operation was a rotation, no dry run, in global mode, on a store
\* whose entries are directories or absent.
GlobalRotation ==
    /\ last.op \in Rotations
    /\ ~last.dry
    /\ root = NoRoot
    /\ \A n \in Names : pre[n].kind # "link"

\* C12: in global mode a rotation of a store of present and absent slot
\* directories returns without raising after at most Top + 3 file-system
\* operations (one eviction, one move per slot, one promotion of two);
\* every operation it performs has a source that was present, an entry no
\* operation names is unchanged, and the slot above an absent slot of the
\* rotated tier is left absent.
C12_Graceful ==
    GlobalRotation =>
        /\ last.err = "none"
        /\ Len(last.ops) <= Top(TierOf(last.op)) + 3
        /\ \A k \in 1..Len(last.ops) :
               last.ops[k].src # NoName => exists(pre[last.ops[k].src])
        /\ \A n \in Names :
               (\A k \in 1..Len(last.ops) :
                    last.ops[k].src # n /\ last.ops[k].dst # n)
                   => store[n] = pre[n]
        /\ \A i \in 0..(Top(TierOf(last.op)) - 1) :
               ~exists(pre[Slot(TierOf(last.op), i)])
                   => ~exists(store[Slot(TierOf(last.op), i + 1)])

\* rotate_daily in global mode met day-3 absent between day-2 and day-4,
\* and hour-23 absent.
C12_Witness ==
    /\ GlobalRotation
    /\ last.op = "rotate_daily"
    /\ ~exists(pre[Day(3)]) /\ exists(pre[Day(2)]) /\ exists(pre[Day(4)])
    /\ ~exists(pre[Hour(HourTop)])
    /\ ~exists(store[Day(0)])

\* C13: tag(snapshot_name, tag_name) raises FileNotFoundError when the
\* snapshot is absent, else FileExistsError when an entry named tag_name
\* exists in the base directory, the store unchanged in both cases;
\* otherwise it returns normally and (unless a dry run) tag_name is a
\* directory holding what the snapshot holds, the snapshot and every other
\* entry being as before.
C13_Tag ==
    last.op = "tag" =>
        IF ~exists(pre[last.a])
        THEN last.err = "FileNotFoundError" /\ store = pre
        ELSE IF exists(pre[last.b])
        THEN last.err = "FileExistsError" /\ store = pre
        ELSE /\ last.err = "none"
             /\ last.dry => store = pre
             /\ ~last.dry =>
                    /\ store[last.b].kind = "dir"
                    /\ Content(store[last.b]) = Content(pre[last.a])
                    /\ \A n \in Names \ {last.b} : store[n] = pre[n]

\* The same tag name given twice: the second tag found the tag the first
\* had made, holding the mirrors of the snapshot, and raised
\* FileExistsError.
C13_Witness ==
    /\ last.op = "tag" /\ ~last.dry
    /\ last.err = "FileExistsError"
    /\ last.b \in TagNames
    /\ pre[last.b].kind = "dir"
    /\ Content(pre[last.b]) = Content(pre[last.a])
    /\ pre[last.b].sub = Mirrors

C15_DeleteTag ==
    last.op = "delete_tag" =>
        IF ~exists(pre[last.a])
        THEN last.err = "FileNotFoundError" /\ store = pre
        ELSE IF is_standard_snapshot(last.a)
        THEN last.err = "ValueError" /\ store = pre
        ELSE /\ last.err = "none"
             /\ ~last.dry => ~exists(store[last.a])
             /\ \A n \in Names \ {last.a} : store[n] = pre[n]

\* create_hard_link_copy was called on an existing source and returned.
Copied == pout.op = "create_hard_link_copy" /\ pin.src.present

\* C16: after create_hard_link_copy(src, dst) every regular file under src
\* has a counterpart at the same path under dst with the inode of the src
\* file, also when os.link failed and the file was copied.
C16_SameInode ==
    Copied =>
        \A f \in TreeFiles :
            pin.src.files[f] # NoFile
                => pout.dst.files[f].ino = pin.src.files[f].ino

\* C16, amended: every regular file under src has a counterpart at the
\* same path under dst with the same bytes; the counterpart has the inode
\* of the src file exactly when os.link succeeded for it, and is a new file
\* when os.link failed and the file was copied.
C16_LinkedOrCopied ==
    Copied =>
        /\ pout.err = "none"
        /\ \A f \in TreeFiles :
               pin.src.files[f] # NoFile =>
                   /\ pout.dst.files[f] # NoFile
                   /\ pout.dst.files[f].data = pin.src.files[f].data
                   /\ (pout.dst.files[f].ino = pin.src.files[f].ino)
                          <=> f \notin pin.fails

\* A copy of a source with both files onto a destination that held other
\* files of the same names: one was linked, for the other os.link failed.
C16_Witness ==
    /\ Copied
    /\ pin.fails = {"d/c"}
    /\ \A f \in TreeFiles :
           /\ pin.src.files[f] # NoFile
           /\ pin.dst.files[f] # NoFile
           /\ pin.dst.files[f].ino # pin.src.files[f].ino
    /\ pout.dst.files["a"].ino = pin.src.files["a"].ino
    /\ pout.dst.files["d/c"].ino # pin.src.files["d/c"].ino

\* C17: create_hard_link_copy(src, dst) on a missing src raises
\* FileNotFoundError without creating dst; otherwise, whatever dst held
\* before, dst afterwards has exactly the directories and files of src,
\* each file with the bytes of its src file, and nothing else.
C17_Synchronizes ==
    pout.op = "create_hard_link_copy" =>
        IF ~pin.src.present
        THEN pout.err = "FileNotFoundError" /\ pout.dst = pin.dst
        ELSE /\ pout.err = "none"
             /\ pout.dst.present
             /\ pout.dst.dirs = pin.src.dirs
             /\ \A f \in TreeFiles :
                    pout.dst.files[f].data = pin.src.files[f].data

\* What init_snapshots makes of store st: it returns normally, every slot
\* of the four tiers exists, every entry that existed and every entry that
\* is no slot is as it was, and a second init_snapshots changes nothing.
InitOutcome(st, after) ==
    /\ \A n \in Slots : exists(after[n])
    /\ \A n \in Names : exists(st[n]) \/ n \notin Slots => after[n] = st[n]
    /\ init_snapshots(after).err = "none"
    /\ init_snapshots(after).st = after

\* C18: init_snapshots never raises on existing directories, creates
\* hour-0..23, day-0..7, week-0..4 and month-0..12, leaves every present
\* slot and tag as it was, and run twice gives the state it gives run once;
\* this holds for the call just made and for a call from the current store.
C18_InitIdempotent ==
    /\ last.op = "init_snapshots"
           => last.err = "none" /\ InitOutcome(pre, store)
    /\ init_snapshots(store).err = "none"
    /\ InitOutcome(store, init_snapshots(store).st)

\* init_snapshots ran on a store after another operation: it found hour-0
\* holding mirrors and hour-1 present and left them, and it created a slot
\* that was absent.
C18_Witness ==
    /\ Ran("init_snapshots")
    /\ pre[Hour(0)].sub # NoSubs
    /\ exists(pre[Hour(1)])
    /\ \E n \in Slots : ~exists(pre[n]) /\ store[n] = EmptyDir

\* The last operation was an hourly backup, no dry run, of a store whose
\* hourly rotation does not abort; last.a[b] is what the sync of source b
\* met.
BackedUp ==
    /\ last.op = "hourly_backup"
    /\ ~last.dry
    /\ rotate_hourly(pre, FALSE).err = "none"

\* Source b was handed to the sync and the sync succeeded.
Synced(b) ==
    \/ last.a[b] = "ok"
    \/ last.a[b] = "escaped" /\ root = NoRoot

\* What hour-0 holds for source b when its sync did not succeed: what the
\* former hour-0 held, or an empty target directory made for the sync.
Inherited(b) ==
    IF last.a[b] = "fail" /\ pre[Hour(0)].sub[b] = NoSub THEN EmptySub
    ELSE pre[Hour(0)].sub[b]

MaxSlotHours == (MonthTop + 1) * 24 * 30

\* Whether list s holds every tag behind every standard slot, the slots in
\* the order of their hours-ago values.
TagsLast(s) ==
    \A i, j \in 1..Len(s) :
        i < j =>
            /\ is_standard_snapshot(s[j]) => is_standard_snapshot(s[i])
            /\ is_standard_snapshot(s[j])
                   => snapshot_to_hours(s[i]) <= snapshot_to_hours(s[j])

\* C20: snapshot_to_hours gives N for hour-N, (N+1)*24 for day-N,
\* (N+1)*24*7 for week-N, (N+1)*24*30 for month-N, and for every name that
\* does not match ^(hour|day|week|month)-\d+$ a value larger than that of
\* any slot; sort_snapshots_by_age returns the names it was given, newest
\* first, every tag behind every standard slot.
C20_AgeOrder ==
    /\ pout.op = "snapshot_to_hours" =>
           IF is_standard_snapshot(pin[1])
           THEN pout.out =
                    CASE pin[1].pre = "hour" -> pin[1].num
                      [] pin[1].pre = "day" -> (pin[1].num + 1) * 24
                      [] pin[1].pre = "week" -> (pin[1].num + 1) * 24 * 7
                      [] pin[1].pre = "month" -> (pin[1].num + 1) * 24 * 30
           ELSE pout.out > MaxSlotHours
    /\ pout.op = "sort_snapshots_by_age" =>
           /\ Len(pout.out) = Len(pin)
           /\ \A n \in AgeNames :
                  Cardinality({i \in 1..Len(pin) : pin[i] = n})
                      = Cardinality({i \in 1..Len(pin) : pout.out[i] = n})
           /\ TagsLast(pout.out)

\* The path a base directory candidate resolves to (Path.resolve() of the
\* expanded path), and whether its resolution fails on a permission error
\* or a symbolic link cycle.
ResolvedTarget == realpath(InitializedStore, expand_path(pin.path), pin.cwd)

Unresolvable ==
    os_stat(<<>>, absolute(expand_path(pin.path), pin.cwd), 0)
        \in {"EACCES", "ELOOP"}

\* C21: is_dangerous_targetbase reports dangerous exactly when the resolved
\* path is a system directory, or is the home directory, or the path
\* cannot be resolved, or, in local mode, the raw path has a ".."
\* component or is absolute; the reason is empty iff the path is not
\* dangerous.
C21_Dangerous ==
    pout.op = "is_dangerous_targetbase" =>
        /\ ~pout.ok <=>
               \/ ResolvedTarget \in SystemDirs
               \/ ResolvedTarget = Home
               \/ Unresolvable
               \/ pin.is_local
                  /\ \/ \E k \in 1..Len(pin.path.parts) :
                            pin.path.parts[k] = DotDot
                     \/ pin.path.abs
        /\ pout.reason = "" <=> pout.ok

\* C22: delete_path raises FileNotFoundError whenever hour-0 is absent;
\* otherwise it deletes at most the path's counterpart in hour-0 under the
\* basename of the source the path lies under (the mirror of that source or
\* one file of it) and leaves every other entry of the base directory as
\* it was; for a path under no configured source it returns normally and
\* deletes nothing.
C22_DeletePath ==
    last.op = "delete_path" =>
        IF ~exists(pre[Hour(0)])
        THEN last.err = "FileNotFoundError" /\ store = pre
        ELSE /\ \A n \in Names \ {Hour(0)} : store[n] = pre[n]
             /\ store[Hour(0)].kind = pre[Hour(0)].kind
             /\ store[Hour(0)].mark = pre[Hour(0)].mark
             /\ \A b \in Basenames :
                    \/ store[Hour(0)].sub[b] = pre[Hour(0)].sub[b]
                    \/ /\ last.a = Comp(b)
                       /\ \A c \in Basenames \ {b} :
                              store[Hour(0)].sub[c] = pre[Hour(0)].sub[c]
                       /\ \/ store[Hour(0)].sub[b] = NoSub
                          \/ \E f \in Files :
                                 store[Hour(0)].sub[b] =
                                     [pre[Hour(0)].sub[b] EXCEPT
                                         !.files = @ \ {f}]
             /\ last.a = Comp("") => last.err = "none" /\ store = pre

\* The last operation was a recover or undel that was no dry run; last.b[b]
\* is how the sync of source b ends.
Restored == last.op \in {"recover", "undel"} /\ ~last.dry

\* The sources, in configuration order, that have a subdirectory in the
\* snapshot a restore reads.
Mirrored == SelectSeq(Dirs, LAMBDA b : pre[last.a].sub[b] # NoSub)

C24_ViolationFatal ==
    /\ last.op = "hourly_backup"
    /\ ~last.dry
    /\ root # NoRoot
    /\ \E b \in Basenames :
           validate_workspace_path(pre, SourcePath(b, last.a[b]), root,
                                   ToolCwd, TRUE) # "none"
    => last.err # "none"

\* The retention count the configuration gives for tier t.
Retention(t) ==
    CASE t = "hour" -> config.hsnaps
      [] t = "day" -> config.dsnaps
      [] t = "week" -> config.wsnaps
      [] t = "month" -> config.msnaps

\* C25: a rotation creates no slot of its tier with an index above the
\* retention count the configuration gives for the tier
\* (hsnaps/dsnaps/wsnaps/msnaps, by default 23/7/4/12).
C25_Retention ==
    (last.op \in Rotations /\ ~last.dry /\ last.err = "none") =>
        \A i \in 0..Top(TierOf(last.op)) :
            i > Retention(TierOf(last.op))
                /\ exists(store[Slot(TierOf(last.op), i)])
                => exists(pre[Slot(TierOf(last.op), i)])


\* C26: every error raised by validate_workspace_path, for a raw ".."
\* component as for a resolved path outside the workspace, names the
\* operation, the attempted path and the workspace root.
C26_ErrorMessage ==
    (pout.op = "validate_workspace_path" /\ pout.err # "none") =>
        ErrorMessage(pout.err) = {"operation", "path", "workspace_root"}


\* C27: list_tagged_snapshots returns exactly the subdirectories of the
\* base directory whose name does not match ^(hour|day|week|month)-\d+$
\* (hour-old is listed as a tag, a standard slot never is), and
\* list_snapshots returns exactly those whose name matches it.
C27_Listings ==
    /\ last.op = "list_tagged_snapshots" =>
           pout.names = {n \in Names : is_dir(store[n])
                                         /\ ~is_standard_snapshot(n)}
    /\ last.op = "list_snapshots" =>
           pout.names = {n \in Names : is_dir(store[n])
                                         /\ is_standard_snapshot(n)}


\* What a serial execution of the two invocations leaves, first then
\* second: the store and the exception of each invocation.
Rotated(kind, st) ==
    IF kind = "rotate_hourly" THEN rotate_hourly(st, FALSE)
    ELSE rotate_daily(st, FALSE)

SerialOutcome(first, second) ==
    [st |-> Rotated(procs[second].kind,
                    Rotated(procs[first].kind, pre).st).st,
     err |-> [i \in Invocations |->
                 IF i = first THEN Rotated(procs[first].kind, pre).err
                 ELSE Rotated(procs[second].kind,
                              Rotated(procs[first].kind, pre).st).err]]

RaceOutcome ==
    [st |-> store, err |-> [i \in Invocations |-> procs[i].err]]

BothFinished == \A i \in Invocations : Finished(procs[i])

Corrupted ==
    /\ BothFinished
    /\ RaceOutcome # SerialOutcome(1, 2)
    /\ RaceOutcome # SerialOutcome(2, 1)

\* C28: two rotations on the same base directory whose exists, delete and
\* rename calls interleave can end in an outcome that no serial execution
\* of the two produces; an outcome that no serial execution produces
\* comes only from interleaved invocations.
C28_RaceCorrupts ==
    Corrupted => \E i \in Invocations : procs[i].mixed

\* Two interleaved rotations have ended in a store or with an exception
\* that neither serial order gives.
C28_Witness ==
    /\ Corrupted
    /\ \E i \in Invocations : procs[i].mixed


\* The tier whose top slot feeds slot 0 of tier t ("" for the hour tier).
Below(t) ==
    CASE t = "day" -> "hour"
      [] t = "week" -> "day"
      [] t = "month" -> "week"
      [] OTHER -> ""

\* A file-system operation that deletes a slot, or moves or copies one
\* across a tier boundary.
Crossing(o) ==
    \/ o.op = "delete"
    \/ o.op \in {"rename", "link_copy"} /\ o.src.pre # o.dst.pre

\* The operation takes the top slot of tier t out of the tier: deletes it
\* or renames it to slot 0 of another tier.
LeavesTop(o, t) ==
    /\ o.src = Slot(t, Top(t))
    /\ \/ o.op = "delete"
       \/ o.op = "rename" /\ o.dst.pre # t /\ o.dst.num = 0

\* The operation feeds slot 0 of tier t from the top slot of the tier below.
FeedsZero(o, t) ==
    /\ o.op \in {"rename", "link_copy"}
    /\ Below(t) # ""
    /\ o.src = Slot(Below(t), Top(Below(t)))
    /\ o.dst = Slot(t, 0)

CrossingsOfLast == {k \in 1..Len(last.ops) : Crossing(last.ops[k])}

\* C29 as stated: in any single rotation call at most one slot is deleted
\* or moved or copied across a tier boundary.
C29_AtMostOne ==
    last.op \in Rotations => Cardinality(CrossingsOfLast) <= 1

\* C29: a rotation call deletes or moves across a tier boundary at most
\* twice: at most once it takes the top slot of its tier out (deleted, or
\* renamed to slot 0 of the next tier), and at most once it feeds its
\* slot 0 from the top slot of the tier below (never for the hour tier);
\* every other change is a shift within the tier.
C29_OneOutOneIn ==
    last.op \in Rotations =>
        /\ \A k \in CrossingsOfLast :
               \/ LeavesTop(last.ops[k], TierOf(last.op))
               \/ FeedsZero(last.ops[k], TierOf(last.op))
        /\ Cardinality({k \in CrossingsOfLast :
               LeavesTop(last.ops[k], TierOf(last.op))}) <= 1
        /\ Cardinality({k \in CrossingsOfLast :
               FeedsZero(last.ops[k], TierOf(last.op))}) <= 1

\* A rotation both took its top slot out of the tier and fed its slot 0.
C29_Witness ==
    /\ last.op \in Rotations
    /\ last.err = "none"
    /\ \E k \in CrossingsOfLast : LeavesTop(last.ops[k], TierOf(last.op))
    /\ \E k \in CrossingsOfLast : FeedsZero(last.ops[k], TierOf(last.op))


\* The present slots of tier t form an index range that starts at 0.
Contiguous(t) ==
    \A j \in 1..Top(t) :
        exists(store[Slot(t, j)]) => exists(store[Slot(t, j - 1)])

\* C30 as stated: after any sequence of completed operations (rotations,
\* hourly backups) from the initialised store, the present slots of each
\* tier form a contiguous index range starting at 0.
C30_Contiguous ==
    regime \in {"init"} \cup ChainKinds => \A t \in Tiers : Contiguous(t)

\* C30: after any sequence of hourly backups, or of weekly rotations, from
\* the initialised store, the present slots of each tier form a contiguous
\* index range starting at 0 (the backup recreates hour-0 after its
\* rotation, the weekly rotation refills week-0 from day-7).
C30_RefilledContiguous ==
    regime \in {"init", "backup", "rotate_weekly"} =>
        \A t \in Tiers : Contiguous(t)

\* An hourly backup has rotated the hour tier of a store it had already
\* written to, and hour-0 is there again.
C30_Witness ==
    /\ regime = "backup"
    /\ last.op = "hourly_backup"
    /\ ~last.dry
    /\ run > 1
    /\ exists(pre[Slot("hour", 0)])
    /\ store[Slot("hour", 1)] = pre[Slot("hour", 0)]
    /\ exists(store[Slot("hour", 0)])
    /\ \A t \in Tiers : Contiguous(t)


\* The slot at the top index of the tier a rotation turns.
TopOfLast == Slot(TierOf(last.op), Top(TierOf(last.op)))

BelowTopOfLast == Slot(TierOf(last.op), Top(TierOf(last.op)) - 1)

\* C31 as stated: at the end of every completed rotation call of a tier
\* the slot at the top index of that tier (hour-23, day-7, week-4,
\* month-12) is absent.
C31_OverflowAbsent ==
    (last.op \in Rotations /\ ~last.dry /\ last.err = "none") =>
        ~exists(store[TopOfLast])

\* C31: what the top slot of a tier held before a completed rotation of
\* that tier has left the slot (deleted or promoted), and the slot holds
\* what the slot below it held: it is present at the end exactly when
\* that one was present before.
C31_TopRefilled ==
    (last.op \in Rotations /\ ~last.dry /\ last.err = "none") =>
        store[TopOfLast] = pre[BelowTopOfLast]

\* A rotation has replaced a present top slot by the slot below it.
C31_Witness ==
    /\ last.op \in Rotations
    /\ ~last.dry
    /\ last.err = "none"
    /\ exists(pre[TopOfLast])
    /\ exists(pre[BelowTopOfLast])
    /\ pre[TopOfLast] # pre[BelowTopOfLast]
    /\ store[TopOfLast] = pre[BelowTopOfLast]


\* C32: every directory the tag operation creates has a name that does
\* not match ^(hour|day|week|month)-\d+$: tag never creates a standard
\* slot such as hour-5, so that no directory it created is renamed or
\* deleted by a rotation.
C32_TagNoShadow ==
    (last.op = "tag" /\ ~last.dry /\ last.err = "none") =>
        ~is_standard_snapshot(last.b)


\* The tier that the top slot of tier t is promoted to.
Above(t) ==
    CASE t = "hour" -> "day"
      [] t = "day" -> "week"
      [] OTHER -> "month"

\* Slot 0 of the tier above the one the last rotation turned.
NextZeroOfLast == Slot(Above(TierOf(last.op)), 0)

\* rotate_daily or rotate_weekly has run on a store whose day-7, resp.
\* week-4, was present.
TopPromoted ==
    /\ last.op \in {"rotate_daily", "rotate_weekly"}
    /\ ~last.dry
    /\ last.err = "none"
    /\ exists(pre[TopOfLast])

\* C33: when rotate_daily (rotate_weekly) finds day-7 (week-4) present,
\* its first file-system operation vacates that slot, before any shift:
\* a rename to week-0 (month-0) exactly when that slot was absent, which
\* then holds what the top slot held; else a deletion that leaves the next
\* tier's slot 0 as it was.  The other slots of the next tier are untouched.
C33_TopPromotion ==
    TopPromoted =>
        /\ Len(last.ops) >= 1
        /\ last.ops[1].src = TopOfLast
        /\ ~exists(pre[NextZeroOfLast]) =>
               /\ last.ops[1].op = "rename"
               /\ last.ops[1].dst = NextZeroOfLast
               /\ store[NextZeroOfLast] = pre[TopOfLast]
        /\ exists(pre[NextZeroOfLast]) =>
               /\ last.ops[1].op = "delete"
               /\ store[NextZeroOfLast] = pre[NextZeroOfLast]
        /\ \A i \in 1..Top(Above(TierOf(last.op))) :
               store[Slot(Above(TierOf(last.op)), i)]
                   = pre[Slot(Above(TierOf(last.op)), i)]
        /\ \A k \in 2..Len(last.ops) : last.ops[k].src # TopOfLast

\* rotate_daily has renamed a marked day-7 to the absent week-0 and then
\* refilled day-7 from day-6.
C33_Witness ==
    /\ TopPromoted
    /\ last.op = "rotate_daily"
    /\ pre[Day(DayTop)] = Marked(MarkOf(Day(DayTop)))
    /\ ~exists(pre[Week(0)])
    /\ exists(pre[Week(1)])
    /\ store[Week(0)] = pre[Day(DayTop)]
    /\ store[Day(DayTop)] = pre[Day(DayTop - 1)]
    /\ exists(store[Day(DayTop)])


\* rotate_daily has deleted day-7, week-0 being occupied.
DailyDeleted ==
    /\ last.op = "rotate_daily"
    /\ ~last.dry
    /\ Len(last.ops) >= 1
    /\ last.ops[1].op = "delete"
    /\ last.ops[1].src = Day(DayTop)

\* C34: whenever rotate_daily deletes day-7 because week-0 exists, in a
\* store reached by rotations and hourly backups from the initialised
\* store, what day-7 held is held by some week slot at that moment.
C34_DeletedWasPromoted ==
    DailyDeleted =>
        \E i \in 0..WeekTop : Content(pre[Week(i)]) = Content(pre[Day(DayTop)])


\* What the rotation op does to store st when it is no dry run.
RealRotation(op, st) ==
    CASE op = "rotate_hourly" -> rotate_hourly(st, FALSE)
      [] op = "rotate_daily" -> rotate_daily(st, FALSE)
      [] op = "rotate_weekly" -> rotate_weekly(st, FALSE)
      [] OTHER -> rotate_monthly(st, FALSE)

\* A printed line names the operation o: same source, and the same
\* destination; a promotion line stands for the rename or the deletion of
\* its source, a rename line also for the hard-link copy.
Reports(line, o) ==
    /\ line.src = o.src
    /\ \/ line.op = "promote" /\ o.op \in {"rename", "delete"}
       \/ line.op = "delete" /\ o.op = "delete"
       \/ line.op = "rename" /\ o.op \in {"rename", "link_copy"}
                             /\ line.dst = o.dst

\* C35: the ordered list of operations a dry-run rotation reports is the
\* ordered list of delete and rename operations the real rotation performs
\* from the same store: nothing reported for an absent source, every
\* deletion and promotion of the real run reported.
C35_DryRunFidelity ==
    (last.op \in Rotations /\ last.dry) =>
        /\ Len(dry_run_report(last.op)) = Len(RealRotation(last.op, store).ops)
        /\ \A k \in 1..Len(dry_run_report(last.op)) :
               Reports(dry_run_report(last.op)[k],
                       RealRotation(last.op, store).ops[k])


\* Whether entry n is present just before the k-th file-system operation
\* of the last call, by what the operations before it did to n.
RECURSIVE PresentBefore(_, _)
PresentBefore(k, n) ==
    IF k = 1 THEN exists(pre[n])
    ELSE IF last.ops[k - 1].op \in {"delete", "rename"}
            /\ last.ops[k - 1].src = n
    THEN FALSE
    ELSE IF last.ops[k - 1].op \in {"rename", "link_copy", "create"}
            /\ last.ops[k - 1].dst = n
    THEN TRUE
    ELSE PresentBefore(k - 1, n)

\* C36: in every rotation, whatever slots are present, the destination of
\* each rename (shift or promotion) is absent when the rename is made, and
\* no rename fails: a rotation that raises OSError has failed at its first
\* step, the deletion of a symlinked slot, before any rename.
C36_NoClobber ==
    (last.op \in Rotations /\ ~last.dry) =>
        /\ \A k \in 1..Len(last.ops) :
               last.ops[k].op = "rename" =>
                   ~PresentBefore(k, last.ops[k].dst)
        /\ last.err = "OSError" =>
               /\ last.ops = <<>>
               /\ Condemned(last.op, pre) # NoName
               /\ pre[Condemned(last.op, pre)].kind = "link"

\* rotate_daily has promoted day-7 and hour-23 and shifted day-1..day-6.
C36_Witness ==
    /\ Ran("rotate_daily")
    /\ \A i \in 1..DayTop : exists(pre[Day(i)])
    /\ exists(pre[Hour(HourTop)])
    /\ ~exists(pre[Week(0)])
    /\ Len(last.ops) = DayTop + 1
    /\ \A k \in 1..Len(last.ops) : last.ops[k].op = "rename"


\* A slot that holds a snapshot: a marked directory or one a sync wrote
\* files to. The directory hourly_backup makes when hour-1 is absent and
\* whose syncs all fail stays empty and holds no snapshot.
Populated(e) ==
    exists(e) /\ (e.mark # 0 \/ \E b \in Basenames : e.sub[b].files # {})

\* When the snapshot in a slot was taken: the generation of the sync that
\* wrote it (later is larger; -1 for a slot filled before the run), and for
\* those the marker (older is larger).
NotEarlier(e, f) ==
    \/ e.sub[Dirs[1]].gen > f.sub[Dirs[1]].gen
    \/ /\ e.sub[Dirs[1]].gen = f.sub[Dirs[1]].gen
       /\ e.mark <= f.mark

\* C37: after rotations of any tiers in any order and hourly backups,
\* among the populated slots of each tier a lower index never holds a
\* snapshot taken earlier than the one at a higher index; slot 0, when
\* populated, holds the newest snapshot of its tier.
C37_AgeMonotone ==
    \A t \in Tiers : \A i \in 0..Top(t) : \A j \in i..Top(t) :
        (Populated(store[Slot(t, i)]) /\ Populated(store[Slot(t, j)])) =>
            NotEarlier(store[Slot(t, i)], store[Slot(t, j)])

\* A daily rotation after an hourly backup: day-0 holds what was hour-22
\* before the backup, above it the older days, and hour-0 the new backup.
C37_Witness ==
    /\ nops = 2
    /\ Ran("rotate_daily")
    /\ hrot = 1
    /\ store[Hour(0)].sub[Dirs[1]].gen = 1
    /\ store[Day(0)].mark = MarkOf(Hour(HourTop - 1))
    /\ \A i \in 1..DayTop : store[Day(i)].mark = MarkOf(Day(i - 1))
    /\ C37_AgeMonotone


\* Entry n is a slot of tier t.
SlotOf(n, t) == is_standard_snapshot(n) /\ n.pre = t

\* The entries a rotation may change, given the store it started from.
InFrame(op, n) ==
    CASE op = "rotate_hourly" -> SlotOf(n, "hour")
      [] op = "rotate_daily" ->
            \/ SlotOf(n, "day")
            \/ n = Hour(HourTop)
            \/ n = Week(0) /\ ~exists(pre[Week(0)])
      [] op = "rotate_weekly" ->
            \/ SlotOf(n, "week")
            \/ n = Month(0) /\ ~exists(pre[Month(0)])
      [] OTHER -> SlotOf(n, "month") \/ n = Week(WeekTop)

\* C38: rotate_hourly changes only hour slots; rotate_daily only day
\* slots, hour-23 and, when it was absent, week-0; rotate_weekly only week
\* slots and, when it was absent, month-0, and no hour or day slot;
\* rotate_monthly only month slots and week-4; none changes a tag.
C38_RotationFrame ==
    last.op \in Rotations =>
        \A n \in Names : store[n] # pre[n] => InFrame(last.op, n)

\* rotate_weekly has moved week-4 to the absent month-0 and copied day-7
\* to week-0, leaving day-7 and the hour slots as they were.
C38_Witness ==
    /\ Ran("rotate_weekly")
    /\ pre[Day(DayTop)] = Marked(MarkOf(Day(DayTop)))
    /\ exists(pre[Week(WeekTop)])
    /\ ~exists(pre[Month(0)])
    /\ store[Month(0)] = pre[Week(WeekTop)]
    /\ store[Week(0)].mark = MarkOf(Day(DayTop))
    /\ store[Day(DayTop)] = pre[Day(DayTop)]
    /\ \E i \in 0..HourTop : exists(store[Hour(i)])


\* No two populated slots of tier t hold the same snapshot.
Distinct(t) ==
    \A i \in 0..Top(t) : \A j \in (i + 1)..Top(t) :
        (Populated(store[Slot(t, i)]) /\ Populated(store[Slot(t, j)])) =>
            Content(store[Slot(t, i)]) # Content(store[Slot(t, j)])

\* C39 as stated: from a store whose populated slots hold distinct
\* snapshots, after any sequence of rotations no two slots of the same
\* tier hold the same snapshot.
C39_NoDuplicates == \A t \in Tiers : Distinct(t)

\* C39: from a store whose populated slots hold distinct snapshots, after
\* any sequence of rotations no two slots of the hour tier and no two
\* slots of the day tier hold the same snapshot (these tiers are fed by
\* renames only).
C39_RenamedTiersDistinct == Distinct("hour") /\ Distinct("day")

\* Two weekly rotations in a row: week-0 and week-1 both hold day-7's
\* snapshot, the hour and day tiers hold distinct ones.
C39_Witness ==
    /\ nops = 2
    /\ Ran("rotate_weekly")
    /\ store[Week(0)].mark = MarkOf(Day(DayTop))
    /\ store[Week(1)].mark = MarkOf(Day(DayTop))
    /\ \A i \in 0..DayTop : Populated(store[Day(i)])
    /\ \A i \in 0..HourTop : Populated(store[Hour(i)])
    /\ C39_RenamedTiersDistinct

\* The operations of the last rotation that carry a snapshot from one slot
\* to another: the renames and the hard-link copy.
MovesOfLast ==
    {k \in 1..Len(last.ops) : last.ops[k].op \in {"rename", "link_copy"}}

\* The hours-ago value of the destination of operation o is not smaller
\* than that of its source.
AgeKept(o) == snapshot_to_hours(o.dst) >= snapshot_to_hours(o.src)

\* C40: for every cross-tier promotion and every same-tier shift a rotation
\* performs, the hours-ago value of the destination slot name is greater
\* than or equal to the hours-ago value of the source slot name.
C40_AgeNeverDecreases ==
    (last.op \in Rotations /\ ~last.dry) =>
        \A k \in MovesOfLast : AgeKept(last.ops[k])

\* What does hold: the hours-ago value grows by every same-tier shift and
\* by the promotion of hour-23 to day-0; it falls only where day-7 enters
\* week-0 (192 to 168) and where week-4 enters month-0 (840 to 720).
C40_FallsOnlyIntoWeekAndMonth ==
    (last.op \in Rotations /\ ~last.dry) =>
        \A k \in MovesOfLast :
            \/ AgeKept(last.ops[k])
            \/ /\ last.ops[k].src = Day(DayTop)
               /\ last.ops[k].dst = Week(0)
            \/ /\ last.ops[k].src = Week(WeekTop)
               /\ last.ops[k].dst = Month(0)

====
